---- MODULE Spec2Model ----
(***************************************************************************)
(* NBA standings tracker: the roster table, the season schedule, the       *)
(* head-to-head count and the aggregation / elimination pass of            *)
(* nba_tracker.py.                                                         *)
(*                                                                         *)
(* Python dicts are functions; a dict's iteration order (insertion order)  *)
(* is kept by modelling the roster table as a sequence of entries.         *)
(* Dates are 'YYYY-MM-DD' strings in the code, compared with < ; for that  *)
(* zero-padded format the string order is the calendar order, so a date is *)
(* a day number here.                                                      *)
(***************************************************************************)
EXTENDS Integers, Sequences, FiniteSets, TLC

VARIABLES
    roster,                 \* the roster table calculate_friend_totals reads
    full_season_schedule,   \* module global _full_season_schedule
    today,                  \* datetime.now() as a day number
    team_data,              \* argument of the last calculate_friend_totals call
    head_to_head,           \* value returned by the last get_remaining_head_to_head
    friend_totals,          \* value returned by the last calculate_friend_totals
    called,                 \* the functions that have been called and have returned
    schedule_call,          \* argument and return value of the last load_season_schedule
    fetch_count,            \* calls of _fetch_season_schedule_from_espn so far
    cache_file,             \* nba_data_cache.json on disk
    cycle,                  \* per process: position in update_nba_data / update_data.py
    read_result,            \* outcome of the last load_cached_data
    game_entry,             \* the names of one game and the entry fetch_todays_games builds
    sorted_friends,         \* the standings listing built by index / display_standings
    recalc,                 \* the last recalculations: inputs and snapshot returned
    pass_state,             \* position inside a running calculate_friend_totals
    team_records,           \* per team: cumulative wins, losses and dated history
    dates,                  \* the date axis of the historical standings
    friend_history,         \* value returned by calculate_friend_historical_standings
    history_run,            \* the last update_historical_from_espn run: inputs and scoreboards
    fetch_run               \* the last fetch: attempts made, provider answers, value returned

scheduleVars == <<schedule_call, fetch_count>>
cacheVars == <<cache_file, cycle, read_result>>
otherVars == <<game_entry, sorted_friends, recalc, pass_state>>
historyVars == <<team_records, dates, friend_history, history_run>>
fetchVars == <<fetch_run>>

vars == <<roster, full_season_schedule, today, team_data, head_to_head, friend_totals, called,
          schedule_call, fetch_count, cache_file, cycle, read_result,
          game_entry, sorted_friends, recalc, pass_state,
          team_records, dates, friend_history, history_run, fetch_run>>

-----------------------------------------------------------------------------
(* Bounds of the model *)

MaxFixtures == 2    \* longest season schedule explored
MaxDay == 2         \* days are 1..MaxDay

(* Program constants *)

GAMES_PER_TEAM == 82

-----------------------------------------------------------------------------
(* Python values *)

\* _full_season_schedule is None, or a list of games (possibly empty)
NoSchedule == [is_none |-> TRUE, games |-> <<>>]
ScheduleList(games) == [is_none |-> FALSE, games |-> games]

\* `not _full_season_schedule`: None and the empty list are both falsy
ScheduleIsFalsy(s) == s.is_none \/ s.games = <<>>

EmptyDict == [k \in {} |-> 0]

\* dict.get(key, default)
Get(d, key, default) == IF key \in DOMAIN d THEN d[key] ELSE default

\* d[key] = value on a dict
Put(d, key, value) == (key :> value) @@ d

\* d[field] = value on the dict of one friend
SetField(entry, field, value) == (field :> value) @@ entry

Max2(a, b) == IF a >= b THEN a ELSE b

\* a Python float quotient n / d, kept exact as a fraction
Frac(n, d) == [num |-> n, den |-> d]
Zero == [num |-> 0, den |-> 1]

-----------------------------------------------------------------------------
(* The roster table *)

Entry(f, ts) == [friend |-> f, teams |-> ts]

\* variant: the Clippers are listed for Duke and for Undrafted, the Jazz for nobody
AssignmentsWithSharedTeam ==
    << Entry("JJ", <<"Oklahoma City Thunder", "San Antonio Spurs", "Detroit Pistons", "New Orleans Pelicans">>),
       Entry("Andy", <<"Cleveland Cavaliers", "Los Angeles Lakers", "Milwaukee Bucks", "Washington Wizards">>),
       Entry("Nate", <<"Orlando Magic", "Atlanta Hawks", "Memphis Grizzlies", "Phoenix Suns">>),
       Entry("Chris", <<"Golden State Warriors", "Indiana Pacers", "Dallas Mavericks", "Charlotte Hornets">>),
       Entry("Adam", <<"Denver Nuggets", "Boston Celtics", "Miami Heat", "Sacramento Kings">>),
       Entry("Duke", <<"New York Knicks", "LA Clippers", "Toronto Raptors", "Chicago Bulls">>),
       Entry("Nick", <<"Houston Rockets", "Minnesota Timberwolves", "Philadelphia 76ers", "Portland Trail Blazers">>),
       Entry("Undrafted", <<"Brooklyn Nets", "LA Clippers">>) >>

TEAM_ASSIGNMENTS ==
    << Entry("JJ", <<"Oklahoma City Thunder", "San Antonio Spurs", "Detroit Pistons", "New Orleans Pelicans">>),
       Entry("Andy", <<"Cleveland Cavaliers", "Los Angeles Lakers", "Milwaukee Bucks", "Washington Wizards">>),
       Entry("Nate", <<"Orlando Magic", "Atlanta Hawks", "Memphis Grizzlies", "Phoenix Suns">>),
       Entry("Chris", <<"Golden State Warriors", "Indiana Pacers", "Dallas Mavericks", "Charlotte Hornets">>),
       Entry("Adam", <<"Denver Nuggets", "Boston Celtics", "Miami Heat", "Sacramento Kings">>),
       Entry("Duke", <<"New York Knicks", "LA Clippers", "Toronto Raptors", "Chicago Bulls">>),
       Entry("Nick", <<"Houston Rockets", "Minnesota Timberwolves", "Philadelphia 76ers", "Portland Trail Blazers">>),
       Entry("Undrafted", <<"Brooklyn Nets", "Utah Jazz">>) >>

\* The two-participant roster of the end-to-end scenarios: {A: [T1,T2], B: [T3,T4]}
ScenarioRoster ==
    << Entry("A", <<"T1", "T2">>), Entry("B", <<"T3", "T4">>) >>

Rosters == {TEAM_ASSIGNMENTS, ScenarioRoster}

Range(s) == {s[i] : i \in DOMAIN s}

Friends(r) == {r[i].friend : i \in DOMAIN r}

TeamsOf(r, f) == (CHOOSE e \in Range(r) : e.friend = f).teams

RosterTeams(r) == UNION {Range(e.teams) : e \in Range(r)}

-----------------------------------------------------------------------------
(* get_remaining_head_to_head *)

\* team_to_friend.get(team) is None for a team on no roster; None is falsy
NoFriend == ""

RECURSIVE AssignTeams(_, _, _)
AssignTeams(m, f, ts) ==
    IF ts = <<>> THEN m
    ELSE AssignTeams(Put(m, Head(ts), f), f, Tail(ts))

RECURSIVE BuildTeamToFriend(_, _)
BuildTeamToFriend(m, r) ==
    IF r = <<>> THEN m
    ELSE BuildTeamToFriend(AssignTeams(m, Head(r).friend, Head(r).teams), Tail(r))

\* reverse lookup team_name -> friend; a later roster entry overwrites an earlier one
TeamToFriend(r) == BuildTeamToFriend(EmptyDict, r)

\* variant: a game dated today is skipped too
IsPastOrToday(game_date, today_str) == game_date <= today_str

\* `if game['date'] < today_str: continue`
IsPast(game_date, today_str) == game_date < today_str

\* the test that makes a game a counted intra-roster game
IsCounted(home_friend, away_friend) ==
    /\ home_friend # NoFriend
    /\ away_friend # NoFriend
    /\ home_friend = away_friend
    /\ home_friend # "Undrafted"

RECURSIVE CountHeadToHead(_, _, _, _)
CountHeadToHead(counts, games, today_str, team_to_friend) ==
    IF games = <<>> THEN counts
    ELSE LET game == Head(games)
             home_friend == Get(team_to_friend, game.home, NoFriend)
             away_friend == Get(team_to_friend, game.away, NoFriend)
             counted ==
                 IF IsPast(game.date, today_str) THEN counts
                 ELSE IF IsCounted(home_friend, away_friend)
                      THEN Put(counts, home_friend, Get(counts, home_friend, 0) + 1)
                      ELSE counts
         IN CountHeadToHead(counted, Tail(games), today_str, team_to_friend)

get_remaining_head_to_head(r, schedule, today_str) ==
    IF ScheduleIsFalsy(schedule) THEN EmptyDict
    ELSE CountHeadToHead(EmptyDict, schedule.games, today_str, TeamToFriend(r))

-----------------------------------------------------------------------------
(* calculate_friend_totals *)

\* variant: the loop stops at the first team that is not in team_data
RECURSIVE SumFieldUntilMissing(_, _, _)
SumFieldUntilMissing(teams, data, field) ==
    IF teams = <<>> THEN 0
    ELSE IF Head(teams) \in DOMAIN data
         THEN data[Head(teams)][field] + SumFieldUntilMissing(Tail(teams), data, field)
         ELSE 0

\* the inner loop over a friend's teams: the running sum of one field over
\* the teams found in team_data (`if team in team_data`)
RECURSIVE SumField(_, _, _)
SumField(teams, data, field) ==
    IF teams = <<>> THEN 0
    ELSE (IF Head(teams) \in DOMAIN data THEN data[Head(teams)][field] ELSE 0)
         + SumField(Tail(teams), data, field)

\* team_count: the number of the friend's teams found in team_data
RECURSIVE CountFound(_, _)
CountFound(teams, data) ==
    IF teams = <<>> THEN 0
    ELSE (IF Head(teams) \in DOMAIN data THEN 1 ELSE 0) + CountFound(Tail(teams), data)

\* variant: only the teams found in team_data count toward the quota
GamesRemainingOfFound(teams, total_games_played, team_count) ==
    team_count * GAMES_PER_TEAM - total_games_played

\* total_possible_games = len(teams) * 82
\* games_remaining = total_possible_games - total_games_played
GamesRemaining(teams, total_games_played, team_count) ==
    Len(teams) * GAMES_PER_TEAM - total_games_played

\* variant: total_games is the season quota of the roster
TotalGamesOfSeason(total_wins, total_losses, total_possible_games) ==
    total_possible_games

\* 'total_games': total_wins + total_losses
TotalGames(total_wins, total_losses, total_possible_games) ==
    total_wins + total_losses

\* the entry built by the first loop for one friend
FirstPassEntry(teams, data) ==
    LET total_wins == SumField(teams, data, "wins")
        total_losses == SumField(teams, data, "losses")
        total_plus_minus == SumField(teams, data, "total_plus_minus")
        total_games_played == SumField(teams, data, "games_played")
        team_count == CountFound(teams, data)
        total_possible_games == Len(teams) * GAMES_PER_TEAM
        games_remaining == GamesRemaining(teams, total_games_played, team_count)
        max_possible_wins == total_wins + games_remaining
    IN [ total_wins |-> total_wins,
         total_losses |-> total_losses,
         total_games |-> TotalGames(total_wins, total_losses, total_possible_games),
         win_pct |-> IF total_wins + total_losses > 0
                     THEN Frac(total_wins, total_wins + total_losses) ELSE Zero,
         point_diff_per_game |-> IF total_games_played > 0
                                 THEN Frac(total_plus_minus, total_games_played) ELSE Zero,
         games_remaining |-> games_remaining,
         max_possible_win_pct |-> IF total_possible_games > 0
                                  THEN Frac(max_possible_wins, total_possible_games) ELSE Zero,
         teams |-> teams ]

\* variant: one team missing from team_data empties its friend's whole entry
RECURSIVE FirstLoopAllOrNothing(_, _, _)
FirstLoopAllOrNothing(totals, r, data) ==
    IF r = <<>> THEN totals
    ELSE FirstLoopAllOrNothing(
             Put(totals, Head(r).friend,
                 FirstPassEntry(IF Range(Head(r).teams) \subseteq DOMAIN data
                                THEN Head(r).teams ELSE <<>>, data)),
             Tail(r), data)

\* the first loop: one entry per roster entry, in roster order
RECURSIVE FirstLoop(_, _, _)
FirstLoop(totals, r, data) ==
    IF r = <<>> THEN totals
    ELSE FirstLoop(Put(totals, Head(r).friend, FirstPassEntry(Head(r).teams, data)),
                   Tail(r), data)

\* variant: every participant starts not eliminated
RECURSIVE InitNobodyEliminatedLoop(_, _)
InitNobodyEliminatedLoop(totals, order) ==
    IF order = <<>> \/ Head(order) \notin DOMAIN totals THEN totals
    ELSE InitNobodyEliminatedLoop(
             Put(totals, Head(order), SetField(totals[Head(order)], "is_eliminated", FALSE)),
             Tail(order))

\* "Undrafted is always eliminated": the loop that initialises is_eliminated
RECURSIVE InitEliminatedLoop(_, _)
InitEliminatedLoop(totals, order) ==
    IF order = <<>> \/ Head(order) \notin DOMAIN totals THEN totals
    ELSE LET friend == Head(order)
         IN InitEliminatedLoop(
                Put(totals, friend, SetField(totals[friend], "is_eliminated", friend = "Undrafted")),
                Tail(order))

\* variant: a friend missing from the counts is given one game
H2HRemainingDefaultOne(h2h, friend) == Get(h2h, friend, 1)

\* head_to_head.get(friend, 0)
H2HRemaining(h2h, friend) == Get(h2h, friend, 0)

\* the loop that stores the h2h count in each friend's data
RECURSIVE StoreH2HLoop(_, _, _)
StoreH2HLoop(totals, order, h2h) ==
    IF order = <<>> \/ Head(order) \notin DOMAIN totals THEN totals
    ELSE LET friend == Head(order)
         IN StoreH2HLoop(
                Put(totals, friend, SetField(totals[friend], "h2h_remaining", H2HRemaining(h2h, friend))),
                Tail(order), h2h)

\* variant: a head-to-head game takes both of its team-games off the maximum
MaxPossibleWinsLessBothGames(total_wins, games_remaining, h2h_penalty) ==
    total_wins + games_remaining - 2 * h2h_penalty

\* variant: the maximum of the first loop, without the head-to-head adjustment
MaxPossibleWinsUnadjusted(total_wins, games_remaining, h2h_penalty) ==
    total_wins + games_remaining

\* max possible wins = current wins + remaining games - head-to-head matchups
MaxPossibleWins(total_wins, games_remaining, h2h_penalty) ==
    total_wins + games_remaining - h2h_penalty

\* variant: both teams' wins of a head-to-head game are credited
GuaranteedWinsBothGames(total_wins, h2h_remaining) == total_wins + 2 * h2h_remaining

\* other_guaranteed_wins = total_wins + h2h_remaining
GuaranteedWins(total_wins, h2h_remaining) == total_wins + h2h_remaining

\* variant: a friend already marked eliminated is skipped too
RECURSIVE BestOtherMinWinsOfContenders(_, _, _, _)
BestOtherMinWinsOfContenders(best, order, friend, totals) ==
    IF order = <<>> THEN best
    ELSE LET other_friend == Head(order)
             step ==
                 IF \/ other_friend = friend
                    \/ other_friend = "Undrafted"
                    \/ totals[other_friend].is_eliminated
                 THEN best
                 ELSE Max2(best, GuaranteedWins(totals[other_friend].total_wins,
                                                totals[other_friend].h2h_remaining))
         IN BestOtherMinWinsOfContenders(step, Tail(order), friend, totals)

\* the inner loop over other friends, in dict order, from best_other_min_wins = 0
RECURSIVE BestOtherMinWins(_, _, _, _)
BestOtherMinWins(best, order, friend, totals) ==
    IF order = <<>> THEN best
    ELSE LET other_friend == Head(order)
             step ==
                 IF other_friend = friend \/ other_friend = "Undrafted" THEN best
                 ELSE Max2(best, GuaranteedWins(totals[other_friend].total_wins,
                                                totals[other_friend].h2h_remaining))
         IN BestOtherMinWins(step, Tail(order), friend, totals)

\* variant: a tie with the best other guarantee eliminates too
CannotReachOrTie(max_possible_wins, best_other_min_wins) ==
    max_possible_wins <= best_other_min_wins

\* `if max_possible_wins < best_other_min_wins`
CannotReach(max_possible_wins, best_other_min_wins) ==
    max_possible_wins < best_other_min_wins

\* the elimination loop: `order` is what is left to visit, `keys` all the keys
RECURSIVE EliminationLoop(_, _, _)
EliminationLoop(totals, order, keys) ==
    IF order = <<>> \/ Head(order) \notin DOMAIN totals THEN totals
    ELSE LET friend == Head(order)
             max_possible_wins ==
                 MaxPossibleWins(totals[friend].total_wins, totals[friend].games_remaining,
                                 totals[friend].h2h_remaining)
             marked ==
                 IF friend = "Undrafted" THEN totals
                 ELSE IF CannotReach(max_possible_wins, BestOtherMinWins(0, keys, friend, totals))
                      THEN Put(totals, friend, SetField(totals[friend], "is_eliminated", TRUE))
                      ELSE totals
         IN EliminationLoop(marked, Tail(order), keys)

\* keys of friend_totals in insertion order
FriendOrder(r) == [i \in DOMAIN r |-> r[i].friend]

calculate_friend_totals(r, data, schedule, today_str) ==
    EliminationLoop(
        StoreH2HLoop(
            InitEliminatedLoop(FirstLoop(EmptyDict, r, data), FriendOrder(r)),
            FriendOrder(r),
            get_remaining_head_to_head(r, schedule, today_str)),
        FriendOrder(r), FriendOrder(r))

-----------------------------------------------------------------------------
(* Inputs: team stats as the providers return them, schedules, dates *)

\* the table of the end-to-end scenario, in any order of its entries
IsScenario(r) == RosterTeams(r) = RosterTeams(ScenarioRoster)

\* a provider record: fetch_team_stats_espn sets games_played = wins + losses
Rec(w, gp) ==
    [wins |-> w, losses |-> gp - w, games_played |-> gp, total_plus_minus |-> 2 * w - gp]

\* records late in the season: one game left, season finished, one game over-reported
RecordValues == {Rec(5, 81), Rec(5, 82), Rec(6, 82), Rec(6, 83)}

\* marks a team the provider did not return under its roster name
Absent == Rec(-1, -1)

\* the record of every team that is not varied
BaseRecord == Rec(1, 82)

VariedTeams(r) ==
    IF IsScenario(r) THEN {"T1", "T2", "T3", "T4"}
    ELSE {"Oklahoma City Thunder", "Cleveland Cavaliers", "Brooklyn Nets"}

GridInputs(r) ==
    { [t \in {u \in RosterTeams(r) : u \in VariedTeams(r) => pick[u] # Absent} |->
          IF t \in VariedTeams(r) THEN pick[t] ELSE BaseRecord]
      : pick \in [VariedTeams(r) -> RecordValues \cup {Absent}] }

\* the same stats with one team under another spelling of its name
Rename(data, old, new) ==
    [t \in ((DOMAIN data) \ {old}) \cup {new} |-> IF t = new THEN data[old] ELSE data[t]]

\* the input of the end-to-end tie scenario: T1 4-0, T2 0-4, T3 2-2, T4 2-2
ScenarioInputs ==
    { [t \in {"T1", "T2", "T3", "T4"} |->
          CASE t = "T1" -> Rec(4, 4) [] t = "T2" -> Rec(0, 4)
            [] t = "T3" -> Rec(2, 4) [] t = "T4" -> Rec(2, 4)] }

TeamDataInputs(r) ==
    IF IsScenario(r) THEN GridInputs(r) \cup ScenarioInputs
    ELSE GridInputs(r)
         \cup {Rename(d, "LA Clippers", "Los Angeles Clippers") : d \in GridInputs(r)}

Days == 1..MaxDay

\* pairs of teams that meet: two intra-roster pairs, a pair across two rosters,
\* and (default table) the two Undrafted teams
FixturePairs(r) ==
    IF IsScenario(r)
    THEN {<<"T1", "T2">>, <<"T3", "T4">>, <<"T1", "T3">>}
    ELSE {<<"Oklahoma City Thunder", "San Antonio Spurs">>,
          <<"Cleveland Cavaliers", "Los Angeles Lakers">>,
          <<"Oklahoma City Thunder", "Cleveland Cavaliers">>,
          <<"Brooklyn Nets", "Utah Jazz">>}

\* the intra-roster pairs of the first two participants
IntraPairs(r) ==
    IF IsScenario(r)
    THEN {<<"T1", "T2">>, <<"T3", "T4">>}
    ELSE {<<"Oklahoma City Thunder", "San Antonio Spurs">>,
          <<"Cleveland Cavaliers", "Los Angeles Lakers">>}

Fixtures(pairs) ==
    {[date |-> d, home |-> p[1], away |-> p[2]] : d \in Days, p \in pairs}

\* _fetch_season_schedule_from_espn sorts the games by date
SortedByDate(games) == \A i \in 1..(Len(games) - 1) : games[i].date <= games[i + 1].date

\* never loaded, or a list of at most MaxFixtures games between the given pairs
Schedules(pairs) ==
    {NoSchedule} \cup
    {ScheduleList(g) : g \in {s \in UNION {[1..n -> Fixtures(pairs)] : n \in 0..MaxFixtures} :
                                 SortedByDate(s)}}

-----------------------------------------------------------------------------
(* load_season_schedule and _fetch_season_schedule_from_espn *)

\* the events of the ESPN team-schedule responses, in the order they are read;
\* two event ids are enough for a game to be listed twice or two games once
Events(pairs) ==
    {[id |-> i, date |-> d, home |-> p[1], away |-> p[2]] :
        i \in {1, 2}, d \in Days, p \in pairs}

EventLists(pairs) == UNION {[1..n -> Events(pairs)] : n \in 0..MaxFixtures}

\* an event whose id was already seen is skipped, the others become games
RECURSIVE CollectGames(_, _, _)
CollectGames(events, seen_game_ids, all_games) ==
    IF events = <<>> THEN all_games
    ELSE LET event == Head(events)
         IN IF event.id \in seen_game_ids
            THEN CollectGames(Tail(events), seen_game_ids, all_games)
            ELSE CollectGames(Tail(events), seen_game_ids \cup {event.id},
                              Append(all_games, [date |-> event.date, home |-> event.home,
                                                 away |-> event.away]))

\* list.sort(key=date) is stable: a game goes after the games of the same date
RECURSIVE InsertByDate(_, _)
InsertByDate(sorted, game) ==
    IF sorted = <<>> THEN <<game>>
    ELSE IF Head(sorted).date <= game.date
         THEN <<Head(sorted)>> \o InsertByDate(Tail(sorted), game)
         ELSE <<game>> \o sorted

RECURSIVE SortByDate(_)
SortByDate(games) ==
    IF games = <<>> THEN <<>>
    ELSE InsertByDate(SortByDate(SubSeq(games, 1, Len(games) - 1)), games[Len(games)])

\* the fetch: the new value of the global and the value returned. A request that
\* raises is caught: [] is returned and the global is left as it was.
fetch_season_schedule_from_espn(schedule, events, raises) ==
    IF raises
    THEN [schedule |-> schedule, returned |-> ScheduleList(<<>>)]
    ELSE LET all_games == ScheduleList(SortByDate(CollectGames(events, {}, <<>>)))
         IN [schedule |-> all_games, returned |-> all_games]

\* the call reaches the fetch
ReachesFetch(schedule, cached_schedule) == schedule.is_none /\ ScheduleIsFalsy(cached_schedule)

LoadPreferringArgument(schedule, cached_schedule, events, raises) ==
    IF ~ScheduleIsFalsy(cached_schedule)
    THEN [schedule |-> cached_schedule, returned |-> cached_schedule]
    ELSE IF ~schedule.is_none
         THEN [schedule |-> schedule, returned |-> schedule]
         ELSE fetch_season_schedule_from_espn(schedule, events, raises)

load_season_schedule(schedule, cached_schedule, events, raises) ==
    IF ~schedule.is_none
    THEN [schedule |-> schedule, returned |-> schedule]
    ELSE IF ~ScheduleIsFalsy(cached_schedule)
         THEN [schedule |-> cached_schedule, returned |-> cached_schedule]
         ELSE fetch_season_schedule_from_espn(schedule, events, raises)

\* no load_season_schedule call yet
NoScheduleCall == [cached_schedule |-> NoSchedule, returned |-> NoSchedule]

-----------------------------------------------------------------------------
(* nba_data_cache.json *)

\* the JSON document of one refresh; keys is the set of its top-level keys
NoSnapshot ==
    [last_updated |-> 0, team_stats |-> EmptyDict, friend_totals |-> EmptyDict,
     keys |-> {}, full_season_schedule |-> NoSchedule]

\* text: "none" (no file), "empty" (truncated), "partial" (not a JSON document),
\* "complete"; open_by: the processes that hold the file open for writing
AbsentFile == [exists |-> FALSE, text |-> "none", data |-> NoSnapshot, open_by |-> {}]

\* the scheduler / api_update thread, the update_data.py script, a request thread
Procs == {"update_nba_data", "update_data", "load_cached_data"}

IdleCycle == [pc |-> "idle", snapshot |-> NoSnapshot, outcome |-> "none", raced |-> FALSE]

NoRead == [status |-> "none", data |-> NoSnapshot]

-----------------------------------------------------------------------------
(* Idle values of the remaining state *)

\* no game looked at yet
NoGame == [home |-> "", visitor |-> "", home_friend |-> "", visitor_friend |-> ""]

\* calculate_friend_totals is not running
NotRunning == [phase |-> "idle", todo |-> {}]

\* calculate_friend_historical_standings has not returned; it returns None
\* for empty team_records or an empty date axis
NoHistory == [is_none |-> TRUE, history |-> EmptyDict]

\* update_historical_from_espn has not run
NoHistoryRun == [team_records |-> EmptyDict, dates |-> <<>>, scoreboards |-> EmptyDict, ran_on |-> 0]

\* no fetch has run
NoFetchRun ==
    [function |-> "", espn |-> "not asked", attempts |-> 0, answers |-> <<>>,
     returned |-> "", pc |-> "idle"]

-----------------------------------------------------------------------------
(* The two functions as state machines: the inputs are drawn at the start  *)
(* and the function is applied to them once.                               *)

\* calculate_friend_totals has returned a snapshot
Returned == "calculate_friend_totals" \in called

NotCalled ==
    /\ team_data = EmptyDict
    /\ head_to_head = EmptyDict
    /\ friend_totals = EmptyDict
    /\ called = {}
    /\ schedule_call = NoScheduleCall
    /\ fetch_count = 0
    /\ cache_file = AbsentFile
    /\ cycle = [p \in Procs |-> IdleCycle]
    /\ read_result = NoRead
    /\ game_entry = NoGame
    /\ sorted_friends = <<>>
    /\ recalc = <<>>
    /\ pass_state = NotRunning
    /\ team_records = EmptyDict
    /\ dates = <<>>
    /\ friend_history = NoHistory
    /\ history_run = NoHistoryRun
    /\ fetch_run = NoFetchRun

GetRemainingHeadToHead ==
    /\ called = {}
    /\ head_to_head' = get_remaining_head_to_head(roster, full_season_schedule, today)
    /\ called' = called \cup {"get_remaining_head_to_head"}
    /\ UNCHANGED <<historyVars, fetchVars, roster, full_season_schedule, today, team_data, friend_totals>>
    /\ UNCHANGED <<scheduleVars, cacheVars, otherVars>>

CalculateFriendTotals ==
    /\ called = {}
    /\ \E data \in TeamDataInputs(roster) :
        /\ team_data' = data
        /\ head_to_head' = get_remaining_head_to_head(roster, full_season_schedule, today)
        /\ friend_totals' = calculate_friend_totals(roster, data, full_season_schedule, today)
        /\ called' = called \cup {"get_remaining_head_to_head", "calculate_friend_totals"}
        /\ UNCHANGED <<historyVars, fetchVars, roster, full_season_schedule, today>>
        /\ UNCHANGED <<scheduleVars, cacheVars, otherVars>>

\* get_remaining_head_to_head over every schedule
InitH2H ==
    /\ roster \in Rosters
    /\ full_season_schedule \in Schedules(FixturePairs(roster))
    /\ today \in Days
    /\ NotCalled

NextH2H == GetRemainingHeadToHead

SpecH2H == InitH2H /\ [][NextH2H]_vars

\* calculate_friend_totals over every team-stats input
InitTotals ==
    /\ roster \in Rosters
    /\ full_season_schedule \in Schedules(IntraPairs(roster))
    /\ today \in Days
    /\ NotCalled

NextTotals == CalculateFriendTotals

SpecTotals == InitTotals /\ [][NextTotals]_vars

-----------------------------------------------------------------------------
(* load_season_schedule called any number of times after the module import *)

MaxFetches == 2     \* fetches of the season schedule explored

ApplyLoadSeasonSchedule(cached_schedule, events, raises) ==
    LET out == load_season_schedule(full_season_schedule, cached_schedule, events, raises)
    IN /\ full_season_schedule' = out.schedule
       /\ schedule_call' = [cached_schedule |-> cached_schedule, returned |-> out.returned]
       /\ fetch_count' = IF ReachesFetch(full_season_schedule, cached_schedule)
                         THEN fetch_count + 1 ELSE fetch_count
       /\ called' = called \cup {"load_season_schedule"}
       /\ UNCHANGED <<historyVars, fetchVars, roster, today, team_data, head_to_head, friend_totals, cacheVars, otherVars>>

LoadSeasonSchedule ==
    \E cached_schedule \in Schedules(IntraPairs(roster)) :
        IF ReachesFetch(full_season_schedule, cached_schedule)
        THEN /\ fetch_count < MaxFetches
             /\ \E events \in EventLists(IntraPairs(roster)), raises \in BOOLEAN :
                    ApplyLoadSeasonSchedule(cached_schedule, events, raises)
        ELSE ApplyLoadSeasonSchedule(cached_schedule, <<>>, FALSE)

\* the module has just been imported: _full_season_schedule = None
InitSchedule ==
    /\ roster = TEAM_ASSIGNMENTS
    /\ full_season_schedule = NoSchedule
    /\ today = 1
    /\ NotCalled

NextSchedule == LoadSeasonSchedule

SpecSchedule == InitSchedule /\ [][NextSchedule]_vars

-----------------------------------------------------------------------------
(* Refresh cycles (web_app.update_nba_data, update_data.py) and reads        *)
(* (web_app.load_cached_data) of nba_data_cache.json. open(CACHE_FILE, 'w')  *)
(* truncates the file, json.dump then writes the document piece by piece.    *)

\* what fetch_team_stats returns when a provider answers: all 30 teams
StatsFeed ==
    { ("Oklahoma City Thunder" :> record) @@ [t \in RosterTeams(TEAM_ASSIGNMENTS) |-> BaseRecord]
      : record \in {Rec(5, 81), Rec(6, 82)} }

WebKeys == {"last_updated", "team_stats", "friend_totals"}

ScriptKeys ==
    WebKeys \cup {"friend_history", "todays_games", "yesterdays_games", "team_records", "dates"}

\* cache_data of update_nba_data (three keys) and of update_data.py (eight keys);
\* neither has a 'full_season_schedule' key
BuildCacheData(p, r, data, schedule, now) ==
    [last_updated |-> now,
     team_stats |-> data,
     friend_totals |-> calculate_friend_totals(r, data, schedule, now),
     keys |-> IF p = "update_data" THEN ScriptKeys ELSE WebKeys,
     full_season_schedule |-> NoSchedule]

CacheData(p, data) == BuildCacheData(p, roster, data, full_season_schedule, today)

CompleteFile(snapshot, open_by) ==
    [exists |-> TRUE, text |-> "complete", data |-> snapshot, open_by |-> open_by]

BrokenFile(text, open_by) ==
    [exists |-> TRUE, text |-> text, data |-> NoSnapshot, open_by |-> open_by]

\* load_cached_data runs update_nba_data after a missing or unreadable file
FirstPc(p) == IF p = "load_cached_data" THEN "updating" ELSE "idle"
LastPc(p) == IF p = "load_cached_data" THEN "reread" ELSE "idle"

\* team_stats = fetch_team_stats(): None ends the cycle (return False / exit(1)),
\* otherwise cache_data is built
FetchTeamStats(p) ==
    /\ cycle[p].pc = FirstPc(p)
    /\ \/ cycle' = [cycle EXCEPT ![p] = [pc |-> LastPc(p), snapshot |-> NoSnapshot,
                                         outcome |-> "failed", raced |-> FALSE]]
       \/ \E data \in StatsFeed :
              cycle' = [cycle EXCEPT ![p] = [pc |-> "ready", snapshot |-> CacheData(p, data),
                                             outcome |-> "none", raced |-> FALSE]]
    /\ UNCHANGED <<historyVars, fetchVars, roster, full_season_schedule, today, team_data, head_to_head, friend_totals,
                   called, scheduleVars, otherVars, cache_file, read_result>>

\* open(CACHE_FILE, 'w'): the file is truncated; a process that already has it
\* open goes on writing at its own offset
OpenCacheFile(p) ==
    /\ cycle[p].pc = "ready"
    /\ cache_file' = BrokenFile("empty", cache_file.open_by \cup {p})
    /\ cycle' = [q \in Procs |->
                    IF q = p THEN [cycle[q] EXCEPT !.pc = "writing",
                                                   !.raced = cache_file.open_by # {}]
                    ELSE IF q \in cache_file.open_by THEN [cycle[q] EXCEPT !.raced = TRUE]
                    ELSE cycle[q]]
    /\ UNCHANGED <<historyVars, fetchVars, roster, full_season_schedule, today, team_data, head_to_head, friend_totals,
                   called, scheduleVars, otherVars, read_result>>

\* json.dump has written a part of the document that reached the disk
WriteChunk(p) ==
    /\ cycle[p].pc = "writing"
    /\ cache_file' = BrokenFile("partial", cache_file.open_by)
    /\ UNCHANGED <<historyVars, fetchVars, roster, full_season_schedule, today, team_data, head_to_head, friend_totals,
                   called, scheduleVars, otherVars, cycle, read_result>>

\* the with block ends: the document is on disk. Two writers of the same file
\* race: the bytes on disk are this document or a mix of the two.
CloseCacheFile(p) ==
    /\ cycle[p].pc = "writing"
    /\ \/ cache_file' = CompleteFile(cycle[p].snapshot, cache_file.open_by \ {p})
       \/ /\ cycle[p].raced
          /\ cache_file' = BrokenFile("partial", cache_file.open_by \ {p})
    /\ cycle' = [cycle EXCEPT ![p] = [pc |-> LastPc(p), snapshot |-> NoSnapshot,
                                      outcome |-> "ok", raced |-> FALSE]]
    /\ UNCHANGED <<historyVars, fetchVars, roster, full_season_schedule, today, team_data, head_to_head, friend_totals,
                   called, scheduleVars, otherVars, read_result>>

\* json.dump or the close raises (OSError: disk full, I/O error): update_nba_data
\* catches it and returns False, update_data.py ends with a traceback
WriteFails(p) ==
    /\ cycle[p].pc = "writing"
    /\ cache_file' = [cache_file EXCEPT !.open_by = @ \ {p}]
    /\ cycle' = [cycle EXCEPT ![p] = [pc |-> LastPc(p), snapshot |-> NoSnapshot,
                                      outcome |-> "failed", raced |-> FALSE]]
    /\ UNCHANGED <<historyVars, fetchVars, roster, full_season_schedule, today, team_data, head_to_head, friend_totals,
                   called, scheduleVars, otherVars, read_result>>

\* load_cached_data, first part: the file is read, or it is missing or
\* json.load raises and update_nba_data is called
LoadCachedData ==
    /\ cycle["load_cached_data"].pc = "idle"
    /\ IF cache_file.exists /\ cache_file.text = "complete"
       THEN /\ read_result' = [status |-> "snapshot", data |-> cache_file.data]
            /\ UNCHANGED cycle
       ELSE /\ read_result' = NoRead
            /\ cycle' = [cycle EXCEPT !["load_cached_data"].pc = "updating"]
    /\ UNCHANGED <<historyVars, fetchVars, roster, full_season_schedule, today, team_data, head_to_head, friend_totals,
                   called, scheduleVars, otherVars, cache_file>>

\* load_cached_data, last part: the file is read again; this json.load is not
\* in a try block; None when there is still no file
ReadAgain ==
    /\ cycle["load_cached_data"].pc = "reread"
    /\ read_result' =
           IF ~cache_file.exists THEN [status |-> "None", data |-> NoSnapshot]
           ELSE IF cache_file.text = "complete"
                THEN [status |-> "snapshot", data |-> cache_file.data]
                ELSE [status |-> "error", data |-> NoSnapshot]
    /\ cycle' = [cycle EXCEPT !["load_cached_data"].pc = "idle"]
    /\ UNCHANGED <<historyVars, fetchVars, roster, full_season_schedule, today, team_data, head_to_head, friend_totals,
                   called, scheduleVars, otherVars, cache_file>>

\* the clock: datetime.now() moves on
NextDay ==
    /\ today < MaxDay
    /\ today' = today + 1
    /\ UNCHANGED <<historyVars, fetchVars, roster, full_season_schedule, team_data, head_to_head, friend_totals,
                   called, scheduleVars, otherVars, cacheVars>>

\* the snapshot of an earlier update_data.py run, dated before day 1
EarlierSnapshot ==
    BuildCacheData("update_data", TEAM_ASSIGNMENTS,
                   CHOOSE data \in StatsFeed : data["Oklahoma City Thunder"] = Rec(5, 81),
                   NoSchedule, 0)

\* a one-game fixture list under the key load_season_schedule's docstring names
StoredSchedule ==
    ScheduleList(<<[date |-> MaxDay, home |-> "Oklahoma City Thunder", away |-> "San Antonio Spurs"]>>)

WithSchedule(snapshot) ==
    [snapshot EXCEPT !.keys = @ \cup {"full_season_schedule"},
                     !.full_season_schedule = StoredSchedule]

\* the web application or the script starts: no cache file yet, or the file of
\* an earlier run, with or without a stored fixture list
InitCache ==
    /\ roster = TEAM_ASSIGNMENTS
    /\ full_season_schedule = NoSchedule
    /\ today = 1
    /\ team_data = EmptyDict
    /\ head_to_head = EmptyDict
    /\ friend_totals = EmptyDict
    /\ called = {}
    /\ schedule_call = NoScheduleCall
    /\ fetch_count = 0
    /\ cache_file \in {AbsentFile, CompleteFile(EarlierSnapshot, {}),
                       CompleteFile(WithSchedule(EarlierSnapshot), {})}
    /\ cycle = [p \in Procs |-> IdleCycle]
    /\ read_result = NoRead
    /\ game_entry = NoGame
    /\ sorted_friends = <<>>
    /\ recalc = <<>>
    /\ pass_state = NotRunning
    /\ team_records = EmptyDict
    /\ dates = <<>>
    /\ friend_history = NoHistory
    /\ history_run = NoHistoryRun
    /\ fetch_run = NoFetchRun

NextCache ==
    \/ \E p \in Procs : FetchTeamStats(p)
    \/ \E p \in Procs : OpenCacheFile(p)
    \/ \E p \in Procs : WriteChunk(p)
    \/ \E p \in Procs : CloseCacheFile(p)
    \/ \E p \in Procs : WriteFails(p)
    \/ LoadCachedData
    \/ ReadAgain
    \/ NextDay

SpecCache == InitCache /\ [][NextCache]_vars

\* the runs in which no write fails, started on the cache file of an earlier
\* run that holds a fixture list
InitRefresh ==
    /\ InitCache
    /\ cache_file = CompleteFile(WithSchedule(EarlierSnapshot), {})

NextRefresh ==
    \/ \E p \in Procs : FetchTeamStats(p)
    \/ \E p \in Procs : OpenCacheFile(p)
    \/ \E p \in Procs : WriteChunk(p)
    \/ \E p \in Procs : CloseCacheFile(p)
    \/ LoadCachedData
    \/ ReadAgain
    \/ NextDay

SpecRefresh == InitRefresh /\ [][NextRefresh]_vars

-----------------------------------------------------------------------------
(* Team names: the alias table and the entry fetch_todays_games builds for  *)
(* one game                                                                 *)

API_TEAM_NAME_NORMALIZATION ==
    ("Los Angeles Clippers" :> "LA Clippers") @@ ("LA Clippers" :> "LA Clippers")

\* variant: no alias table
NormalizeNothing(team_name) == team_name

normalize_team_name(team_name) == Get(API_TEAM_NAME_NORMALIZATION, team_name, team_name)

ESPN_TEAM_IDS ==
    [t \in {"Atlanta Hawks", "Boston Celtics", "Brooklyn Nets", "Charlotte Hornets",
            "Chicago Bulls", "Cleveland Cavaliers", "Dallas Mavericks", "Denver Nuggets",
            "Detroit Pistons", "Golden State Warriors", "Houston Rockets", "Indiana Pacers",
            "LA Clippers", "Los Angeles Lakers", "Memphis Grizzlies", "Miami Heat",
            "Milwaukee Bucks", "Minnesota Timberwolves", "New Orleans Pelicans",
            "New York Knicks", "Oklahoma City Thunder", "Orlando Magic",
            "Philadelphia 76ers", "Phoenix Suns", "Portland Trail Blazers",
            "Sacramento Kings", "San Antonio Spurs", "Toronto Raptors", "Utah Jazz",
            "Washington Wizards"} |->
        CASE t = "Atlanta Hawks" -> 1 [] t = "Boston Celtics" -> 2 [] t = "Brooklyn Nets" -> 17
          [] t = "Charlotte Hornets" -> 30 [] t = "Chicago Bulls" -> 4
          [] t = "Cleveland Cavaliers" -> 5 [] t = "Dallas Mavericks" -> 6
          [] t = "Denver Nuggets" -> 7 [] t = "Detroit Pistons" -> 8
          [] t = "Golden State Warriors" -> 9 [] t = "Houston Rockets" -> 10
          [] t = "Indiana Pacers" -> 11 [] t = "LA Clippers" -> 12
          [] t = "Los Angeles Lakers" -> 13 [] t = "Memphis Grizzlies" -> 29
          [] t = "Miami Heat" -> 14 [] t = "Milwaukee Bucks" -> 15
          [] t = "Minnesota Timberwolves" -> 16 [] t = "New Orleans Pelicans" -> 3
          [] t = "New York Knicks" -> 18 [] t = "Oklahoma City Thunder" -> 25
          [] t = "Orlando Magic" -> 19 [] t = "Philadelphia 76ers" -> 20
          [] t = "Phoenix Suns" -> 21 [] t = "Portland Trail Blazers" -> 22
          [] t = "Sacramento Kings" -> 23 [] t = "San Antonio Spurs" -> 24
          [] t = "Toronto Raptors" -> 28 [] t = "Utah Jazz" -> 26
          [] t = "Washington Wizards" -> 27]

\* the names a scoreboard feed gives: the 30 teams, the other spelling of the
\* Clippers, and team_map.get(id, 'Unknown')
FeedNames == (DOMAIN ESPN_TEAM_IDS) \cup {"Los Angeles Clippers", "Unknown"}

\* the entry appended to todays_games for one game
TodaysGameEntry(r, home_name, visitor_name) ==
    LET team_to_friend == TeamToFriend(r)
        home_name_normalized == normalize_team_name(home_name)
        visitor_name_normalized == normalize_team_name(visitor_name)
    IN [visitor |-> visitor_name,
        home |-> home_name,
        visitor_friend |-> Get(team_to_friend, visitor_name_normalized, NoFriend),
        home_friend |-> Get(team_to_friend, home_name_normalized, NoFriend)]

FetchTodaysGames ==
    /\ called = {}
    /\ \E home_name \in FeedNames :
           \E visitor_name \in FeedNames \ {home_name} :
               game_entry' = TodaysGameEntry(roster, home_name, visitor_name)
    /\ called' = called \cup {"fetch_todays_games"}
    /\ UNCHANGED <<historyVars, fetchVars, roster, full_season_schedule, today, team_data, head_to_head, friend_totals,
                   scheduleVars, cacheVars, sorted_friends, recalc, pass_state>>

InitGames ==
    /\ roster = TEAM_ASSIGNMENTS
    /\ full_season_schedule = NoSchedule
    /\ today \in Days
    /\ NotCalled

NextGames == FetchTodaysGames

SpecGames == InitGames /\ [][NextGames]_vars

-----------------------------------------------------------------------------
(* The standings listing: sorted(friend_totals.items(),                     *)
(* key=lambda x: x[1]['total_wins'], reverse=True)                          *)

\* sorted() is stable, with reverse=True too: an item goes after the items
\* whose key is greater or equal
RECURSIVE InsertByWins(_, _, _)
InsertByWins(sorted, friend, totals) ==
    IF sorted = <<>> THEN <<friend>>
    ELSE IF totals[Head(sorted)].total_wins >= totals[friend].total_wins
         THEN <<Head(sorted)>> \o InsertByWins(Tail(sorted), friend, totals)
         ELSE <<friend>> \o sorted

\* items: the keys of friend_totals in dict order
RECURSIVE SortedByWins(_, _)
SortedByWins(items, totals) ==
    IF items = <<>> THEN <<>>
    ELSE InsertByWins(SortedByWins(SubSeq(items, 1, Len(items) - 1), totals),
                      items[Len(items)], totals)

Reverse(s) == [i \in 1..Len(s) |-> s[Len(s) + 1 - i]]

\* the roster table with its entries in the written order and in the opposite one
RosterOrders == Rosters \cup {Reverse(r) : r \in Rosters}

\* index / display_standings on the totals of a refresh
SortStandings ==
    /\ called = {}
    /\ \E data \in TeamDataInputs(roster) :
        /\ team_data' = data
        /\ head_to_head' = get_remaining_head_to_head(roster, full_season_schedule, today)
        /\ friend_totals' = calculate_friend_totals(roster, data, full_season_schedule, today)
        /\ sorted_friends' = SortedByWins(FriendOrder(roster), friend_totals')
        /\ called' = {"get_remaining_head_to_head", "calculate_friend_totals", "display_standings"}
        /\ UNCHANGED <<historyVars, fetchVars, roster, full_season_schedule, today, scheduleVars, cacheVars,
                       game_entry, recalc, pass_state>>

InitListing ==
    /\ roster \in RosterOrders
    /\ full_season_schedule = NoSchedule
    /\ today \in Days
    /\ NotCalled

NextListing == SortStandings

SpecListing == InitListing /\ [][NextListing]_vars

-----------------------------------------------------------------------------
(* calculate_friend_totals one loop iteration at a time. The three loops     *)
(* after the first run over the keys of friend_totals, that is over the      *)
(* entries of the roster table in the order they are written; todo holds the *)
(* keys not visited yet and the next key is any of them, which covers every  *)
(* order of the table.                                                       *)

\* scenario table: every team returned, at or over its 82 games; default table:
\* the stats of a refresh
PassInputs(r) ==
    IF IsScenario(r)
    THEN {d \in GridInputs(r) : \A t \in VariedTeams(r) : t \in DOMAIN d /\ d[t].games_played >= 82}
    ELSE StatsFeed

\* the first loop has filled friend_totals
StartPass ==
    /\ called = {}
    /\ pass_state = NotRunning
    /\ \E data \in PassInputs(roster) :
        /\ team_data' = data
        /\ friend_totals' = FirstLoop(EmptyDict, roster, data)
    /\ pass_state' = [phase |-> "init", todo |-> Friends(roster)]
    /\ called' = {"first_loop"}
    /\ UNCHANGED <<historyVars, fetchVars, roster, full_season_schedule, today, head_to_head, scheduleVars, cacheVars,
                   game_entry, sorted_friends, recalc>>

\* one iteration of `for friend in friend_totals` that initialises
\* is_eliminated; after the last one get_remaining_head_to_head is called
InitEliminatedStep ==
    /\ pass_state.phase = "init"
    /\ \E friend \in pass_state.todo :
        /\ friend_totals' = InitEliminatedLoop(friend_totals, <<friend>>)
        /\ IF pass_state.todo = {friend}
           THEN /\ pass_state' = [phase |-> "h2h", todo |-> Friends(roster)]
                /\ head_to_head' = get_remaining_head_to_head(roster, full_season_schedule, today)
           ELSE /\ pass_state' = [pass_state EXCEPT !.todo = @ \ {friend}]
                /\ UNCHANGED head_to_head
    /\ UNCHANGED <<historyVars, fetchVars, roster, full_season_schedule, today, team_data, called, scheduleVars,
                   cacheVars, game_entry, sorted_friends, recalc>>

\* one iteration of the loop that stores h2h_remaining
StoreH2HStep ==
    /\ pass_state.phase = "h2h"
    /\ \E friend \in pass_state.todo :
        /\ friend_totals' = StoreH2HLoop(friend_totals, <<friend>>, head_to_head)
        /\ pass_state' = IF pass_state.todo = {friend}
                         THEN [phase |-> "elimination", todo |-> Friends(roster)]
                         ELSE [pass_state EXCEPT !.todo = @ \ {friend}]
    /\ UNCHANGED <<historyVars, fetchVars, roster, full_season_schedule, today, team_data, head_to_head, called,
                   scheduleVars, cacheVars, game_entry, sorted_friends, recalc>>

\* one iteration of the elimination loop; after the last one friend_totals
\* is returned
EliminationStep ==
    /\ pass_state.phase = "elimination"
    /\ \E friend \in pass_state.todo :
        /\ friend_totals' = EliminationLoop(friend_totals, <<friend>>, FriendOrder(roster))
        /\ IF pass_state.todo = {friend}
           THEN /\ pass_state' = [phase |-> "returned", todo |-> {}]
                /\ called' = {"get_remaining_head_to_head", "calculate_friend_totals"}
           ELSE /\ pass_state' = [pass_state EXCEPT !.todo = @ \ {friend}]
                /\ UNCHANGED called
    /\ UNCHANGED <<historyVars, fetchVars, roster, full_season_schedule, today, team_data, head_to_head,
                   scheduleVars, cacheVars, game_entry, sorted_friends, recalc>>

InitPass ==
    /\ roster \in Rosters
    /\ full_season_schedule \in Schedules(IntraPairs(roster))
    /\ today \in Days
    /\ NotCalled

NextPass ==
    \/ StartPass
    \/ InitEliminatedStep
    \/ StoreH2HStep
    \/ EliminationStep

SpecPass == InitPass /\ [][NextPass]_vars

-----------------------------------------------------------------------------
(* The recalculate request (POST /api/recalculate of test_sandbox.py): the   *)
(* standings are computed for the roster table of the request from the team  *)
(* stats already fetched. Between two requests the schedule may be loaded    *)
(* and the date may change.                                                  *)

\* the custom table of the test: the default one with two teams changing hands
AlternateRoster ==
    [TEAM_ASSIGNMENTS EXCEPT ![1].teams[1] = "Cleveland Cavaliers",
                             ![2].teams[1] = "Oklahoma City Thunder"]

RecalculateRosters == {TEAM_ASSIGNMENTS, AlternateRoster}

\* a stored fixture list whose only game is played on the first day
OpeningDaySchedule ==
    ScheduleList(<<[date |-> 1, home |-> "Oklahoma City Thunder", away |-> "San Antonio Spurs"]>>)

\* the team stats of the request, late in the season: the Thunder and the
\* Spurs have one game left, every other team has finished
RecalculateStats ==
    { ("Oklahoma City Thunder" :> record) @@ ("San Antonio Spurs" :> Rec(1, 81))
        @@ ("Cleveland Cavaliers" :> Rec(7, 82))
        @@ [t \in RosterTeams(TEAM_ASSIGNMENTS) |-> BaseRecord]
      : record \in {Rec(5, 81), Rec(6, 81)} }

\* the request: the snapshot is what calculate_friend_totals returns for the
\* table of the request; the default table is not assigned
Recalculate ==
    \E team_assignments \in RecalculateRosters, team_stats \in RecalculateStats :
        LET this == [team_assignments |-> team_assignments,
                     team_stats |-> team_stats,
                     friend_totals |-> calculate_friend_totals(team_assignments, team_stats,
                                                               full_season_schedule, today)]
        IN /\ recalc' = IF recalc = <<>> THEN <<this>> ELSE <<recalc[Len(recalc)], this>>
           /\ called' = called \cup {"recalculate"}
           /\ UNCHANGED <<historyVars, fetchVars, roster, full_season_schedule, today, team_data, head_to_head,
                          friend_totals, scheduleVars, cacheVars, game_entry,
                          sorted_friends, pass_state>>

\* load_season_schedule(cached_schedule) with the fixture list of the cache file
LoadCachedSchedule ==
    \E cached_schedule \in {OpeningDaySchedule, StoredSchedule} :
        ApplyLoadSeasonSchedule(cached_schedule, <<>>, FALSE)

InitRecalc ==
    /\ roster = TEAM_ASSIGNMENTS
    /\ full_season_schedule = NoSchedule
    /\ today = 1
    /\ NotCalled

NextRecalc ==
    \/ Recalculate
    \/ LoadCachedSchedule
    \/ NextDay

SpecRecalc == InitRecalc /\ [][NextRecalc]_vars

-----------------------------------------------------------------------------
(* Historical standings: fetch_historical_standings builds team_records and *)
(* the date axis from the season's game log, update_historical_from_espn    *)
(* appends the days since the last date of the axis, and                    *)
(* calculate_friend_historical_standings turns both into a timeline.        *)


\* the two games of a day, <<home, visitor>>; T5 is on no roster
HistoryPairs(r) ==
    IF IsScenario(r)
    THEN << <<"T1", "T5">>, <<"T3", "T2">> >>
    ELSE << <<"Oklahoma City Thunder", "Cleveland Cavaliers">>,
            <<"San Antonio Spurs", "Utah Jazz">> >>

\* rec['wins'] / total if total > 0 else 0
RecordWinPct(wins, losses) ==
    IF wins + losses > 0 THEN Frac(wins, wins + losses) ELSE Zero

NewTeamRecord == [wins |-> 0, losses |-> 0, history |-> <<>>]

\* one result of a team: the cumulative record is updated and appended to
\* the team's history under the date of the game
AddResult(records, team_name, won, game_date) ==
    LET rec == Get(records, team_name, NewTeamRecord)
        wins == IF won THEN rec.wins + 1 ELSE rec.wins
        losses == IF won THEN rec.losses ELSE rec.losses + 1
    IN Put(records, team_name,
           [wins |-> wins, losses |-> losses,
            history |-> Append(rec.history,
                               [date |-> game_date, wins |-> wins, losses |-> losses,
                                win_pct |-> RecordWinPct(wins, losses)])])

\* the rows of the game log, one per team and game, sorted by GAME_DATE
RECURSIVE BuildTeamRecords(_, _)
BuildTeamRecords(records, rows) ==
    IF rows = <<>> THEN records
    ELSE BuildTeamRecords(AddResult(records, Head(rows).team, Head(rows).wl = "W",
                                    Head(rows).date),
                          Tail(rows))

\* sorted(set(dates))
RECURSIVE SortedDates(_)
SortedDates(S) ==
    IF S = {} THEN <<>>
    ELSE LET first == CHOOSE d \in S : \A e \in S : d <= e
         IN <<first>> \o SortedDates(S \ {first})

\* fetch_historical_standings once the game log has arrived
fetch_historical_standings(rows) ==
    [team_records |-> BuildTeamRecords(EmptyDict, rows),
     dates |-> SortedDates({rows[i].date : i \in DOMAIN rows})]

\* the slots of the game log in date order, <<day, game of the day>>: the days
\* before day 1, one game on the first of them and two on the second
LogSlots == << <<-1, 1>>, <<0, 1>>, <<0, 2>> >>

RECURSIVE LogRows(_, _, _)
LogRows(slots, pick, pairs) ==
    IF slots = <<>> THEN <<>>
    ELSE LET d == Head(slots)[1]
             pair == pairs[Head(slots)[2]]
             outcome == pick[Head(slots)]
         IN (IF outcome = "not played" THEN <<>>
             ELSE << [date |-> d, team |-> pair[1],
                      wl |-> IF outcome = "home" THEN "W" ELSE "L"],
                     [date |-> d, team |-> pair[2],
                      wl |-> IF outcome = "home" THEN "L" ELSE "W"] >>)
            \o LogRows(Tail(slots), pick, pairs)

\* the game logs of the days before day 1: each game played (home or visitor
\* won) or not played
GameLogs(r) ==
    { LogRows(LogSlots, pick, HistoryPairs(r))
      : pick \in [Range(LogSlots) -> {"not played", "home", "visitor"}] }

\* a game of fetch_espn_scoreboard: scores are None unless the game is final
NoScore == -1

ScoreboardGame(pair, is_final, home_score, visitor_score) ==
    [home |-> pair[1], visitor |-> pair[2], is_final |-> is_final,
     home_score |-> IF is_final THEN home_score ELSE NoScore,
     visitor_score |-> IF is_final THEN visitor_score ELSE NoScore]

GamesOfPair(pair) ==
    { ScoreboardGame(pair, TRUE, 2, 1), ScoreboardGame(pair, TRUE, 1, 2),
      ScoreboardGame(pair, FALSE, 0, 0) }

\* what fetch_espn_scoreboard returns for a day: [] (no game, or the request
\* failed), the first game, or both games (the second won by the visitor or
\* not finished)
Scoreboards(r) ==
    {<<>>}
    \cup {<<g>> : g \in GamesOfPair(HistoryPairs(r)[1])}
    \cup {<<g, h>> : g \in GamesOfPair(HistoryPairs(r)[1]),
                     h \in {ScoreboardGame(HistoryPairs(r)[2], TRUE, 1, 2),
                            ScoreboardGame(HistoryPairs(r)[2], FALSE, 0, 0)}}

\* home_won = home_score > visitor_score if home_score and visitor_score else False
HomeWon(game) ==
    IF game.home_score \notin {0, NoScore} /\ game.visitor_score \notin {0, NoScore}
    THEN game.home_score > game.visitor_score
    ELSE FALSE

IsFinal(game) == game.is_final

\* for game in completed: one result for the home team, one for the visitor
RECURSIVE CompletedGamesLoop(_, _, _)
CompletedGamesLoop(records, completed, date_iso) ==
    IF completed = <<>> THEN records
    ELSE CompletedGamesLoop(
             AddResult(AddResult(records, Head(completed).home, HomeWon(Head(completed)), date_iso),
                       Head(completed).visitor, ~HomeWon(Head(completed)), date_iso),
             Tail(completed), date_iso)

\* while current.date() < today.date(): a day with completed games is
\* appended to dates and its results to team_records
RECURSIVE MissingDaysLoop(_, _, _, _, _)
MissingDaysLoop(records, axis, current, now, scoreboards) ==
    IF ~(current < now)
    THEN [team_records |-> records, dates |-> axis]
    ELSE LET completed == SelectSeq(scoreboards[current], IsFinal)
         IN IF completed # <<>>
            THEN MissingDaysLoop(CompletedGamesLoop(records, completed, current),
                                 Append(axis, current), current + 1, now, scoreboards)
            ELSE MissingDaysLoop(records, axis, current + 1, now, scoreboards)

\* variant: the scoreboards are asked from the last date of the axis on
FromLastDate(axis) == axis[Len(axis)]

\* current = last_dt + timedelta(days=1)
FirstMissingDay(axis) == axis[Len(axis)] + 1

update_historical_from_espn(records, axis, now, scoreboards) ==
    IF records = EmptyDict \/ axis = <<>>
    THEN [team_records |-> records, dates |-> axis]
    ELSE MissingDaysLoop(records, axis, FirstMissingDay(axis), now, scoreboards)

\* variant: every record counts, whatever its date
AnyDate(record_date, date) == TRUE

\* if record['date'] <= date
OnOrBefore(record_date, date) == record_date <= date

\* for record in history: the last record of the list that passes the test
RECURSIVE LatestRecord(_, _, _)
LatestRecord(latest, history, date) ==
    IF history = <<>> THEN latest
    ELSE LatestRecord(IF OnOrBefore(Head(history).date, date)
                      THEN [wins |-> Head(history).wins, losses |-> Head(history).losses]
                      ELSE latest,
                      Tail(history), date)

\* for team in teams: the latest records of the teams that have a history
RECURSIVE SumLatest(_, _, _, _)
SumLatest(teams, records, date, field) ==
    IF teams = <<>> THEN 0
    ELSE (IF Head(teams) \in DOMAIN records /\ records[Head(teams)].history # <<>>
          THEN LatestRecord([wins |-> 0, losses |-> 0], records[Head(teams)].history, date)[field]
          ELSE 0)
         + SumLatest(Tail(teams), records, date, field)

\* variant: the percentage is computed without looking at total_games
HistoryWinPctUnguarded(total_wins, total_losses) ==
    Frac(total_wins * 100, total_wins + total_losses)

\* win_pct = (total_wins / total_games * 100) if total_games > 0 else 0
HistoryWinPct(total_wins, total_losses) ==
    IF total_wins + total_losses > 0
    THEN Frac(total_wins * 100, total_wins + total_losses) ELSE Zero

\* one participant's timeline: an entry per date of the axis
FriendTimeline(teams, records, axis) ==
    [i \in DOMAIN axis |->
        [date |-> axis[i],
         win_pct |-> HistoryWinPct(SumLatest(teams, records, axis[i], "wins"),
                                   SumLatest(teams, records, axis[i], "losses"))]]

calculate_friend_historical_standings(r, records, axis) ==
    IF records = EmptyDict \/ axis = <<>>
    THEN NoHistory
    ELSE [is_none |-> FALSE,
          history |-> [f \in Friends(r) |-> FriendTimeline(TeamsOf(r, f), records, axis)]]

\* the days update_historical_from_espn asks the scoreboard for
MissingDays(axis, now) ==
    IF axis = <<>> THEN {} ELSE FirstMissingDay(axis)..(now - 1)

HistoryReturned == "calculate_friend_historical_standings" \in called

\* update_data.py, lines 44-48: one incremental update of the cached history
UpdateHistoricalFromEspn ==
    /\ ~HistoryReturned
    /\ \E scoreboards \in [MissingDays(dates, today) -> Scoreboards(roster)] :
        LET out == update_historical_from_espn(team_records, dates, today, scoreboards)
        IN /\ team_records' = out.team_records
           /\ dates' = out.dates
           /\ history_run' = [team_records |-> team_records, dates |-> dates,
                              scoreboards |-> scoreboards, ran_on |-> today]
    /\ called' = called \cup {"update_historical_from_espn"}
    /\ UNCHANGED <<roster, full_season_schedule, today, team_data, head_to_head, friend_totals,
                   scheduleVars, cacheVars, otherVars, fetchVars, friend_history>>

\* update_data.py, line 49
CalculateFriendHistoricalStandings ==
    /\ ~HistoryReturned
    /\ friend_history' = calculate_friend_historical_standings(roster, team_records, dates)
    /\ called' = called \cup {"calculate_friend_historical_standings"}
    /\ UNCHANGED <<roster, full_season_schedule, today, team_data, head_to_head, friend_totals,
                   scheduleVars, cacheVars, otherVars, fetchVars,
                   team_records, dates, history_run>>

\* the scenario roster with a participant who has drafted no team yet
RosterWithEmptyList == Append(ScenarioRoster, Entry("C", <<>>))

\* team stats of a script run: before the first game of the season (every
\* team 0-0), or late in the season (scenario: T1 and T2 not returned)
ScriptStats(r) ==
    {[t \in RosterTeams(r) |-> Rec(0, 0)]}
    \cup (IF IsScenario(r)
          THEN {("T3" :> Rec(5, 81)) @@ ("T4" :> Rec(6, 82))}
          ELSE {[t \in RosterTeams(r) |-> BaseRecord]})

\* update_data.py, line 39: the totals are computed before the history
CalculateFriendTotalsOfScript ==
    /\ "calculate_friend_totals" \notin called
    /\ "update_historical_from_espn" \notin called
    /\ ~HistoryReturned
    /\ \E data \in ScriptStats(roster) :
        /\ team_data' = data
        /\ friend_totals' = calculate_friend_totals(roster, data, full_season_schedule, today)
    /\ called' = called \cup {"calculate_friend_totals"}
    /\ UNCHANGED <<roster, full_season_schedule, today, head_to_head,
                   scheduleVars, cacheVars, otherVars, historyVars, fetchVars>>

\* the cache holds what fetch_historical_standings built from the game log of
\* the days before day 1
InitHistory ==
    /\ roster \in Rosters \cup {RosterWithEmptyList}
    /\ full_season_schedule = NoSchedule
    /\ today = 1
    /\ team_data = EmptyDict
    /\ head_to_head = EmptyDict
    /\ friend_totals = EmptyDict
    /\ called = {}
    /\ schedule_call = NoScheduleCall
    /\ fetch_count = 0
    /\ cache_file = AbsentFile
    /\ cycle = [p \in Procs |-> IdleCycle]
    /\ read_result = NoRead
    /\ game_entry = NoGame
    /\ sorted_friends = <<>>
    /\ recalc = <<>>
    /\ pass_state = NotRunning
    /\ \E rows \in GameLogs(roster) :
        /\ team_records = fetch_historical_standings(rows).team_records
        /\ dates = fetch_historical_standings(rows).dates
    /\ friend_history = NoHistory
    /\ history_run = NoHistoryRun
    /\ fetch_run = NoFetchRun

NextHistory ==
    \/ CalculateFriendTotalsOfScript
    \/ UpdateHistoricalFromEspn
    \/ CalculateFriendHistoricalStandings
    \/ NextDay

SpecHistory == InitHistory /\ [][NextHistory]_vars

-----------------------------------------------------------------------------
(* The fetches: fetch_team_stats asks ESPN and then the NBA backup; the     *)
(* backup and the three nba_api fetches retry inside a for loop whose body  *)
(* is one try block. Every request carries a timeout, so an attempt ends    *)
(* with an answer or with an exception.                                     *)

RetryingFetches ==
    {"fetch_team_stats_nba", "fetch_historical_standings",
     "fetch_todays_games", "fetch_yesterdays_games"}

FetchFunctions == RetryingFetches \cup {"fetch_team_stats"}

\* the retry loop a call runs: fetch_team_stats runs the one of its backup
RetryLoopOf(function) ==
    IF function = "fetch_team_stats" THEN "fetch_team_stats_nba" ELSE function

\* max_retries
MaxRetries(loop) == IF loop = "fetch_team_stats_nba" THEN 2 ELSE 3

\* the value returned when the last attempt failed
FailureValue(loop) ==
    CASE loop = "fetch_team_stats_nba" -> "None"
      [] loop = "fetch_historical_standings" -> "(None, None)"
      [] OTHER -> "[]"

\* the value returned for an answer without rows
EmptyValue(loop) ==
    CASE loop = "fetch_team_stats_nba" -> "{}"
      [] loop = "fetch_historical_standings" -> "({}, [])"
      [] OTHER -> "[]"

\* what an attempt ends with: rows, no rows, or one of the exceptions
Exceptions == {"timeout", "connection error", "malformed response"}
AttemptAnswers == {"rows", "no rows"} \cup Exceptions

\* what the ESPN standings request ends with: a number of teams or an exception
EspnAnswers == {"0 teams", "29 teams", "30 teams", "31 teams"} \cup Exceptions

\* variant: any answer with teams is accepted
EspnAcceptedNonEmpty(answer) == answer \in {"29 teams", "30 teams", "31 teams"}

\* if len(team_stats) == 30
EspnAccepted(answer) == answer = "30 teams"

\* variant: the except branch never takes the failure return
NeverLastAttempt(attempt, max_retries) == FALSE

\* else branch of `if attempt < max_retries - 1`
IsLastAttempt(attempt, max_retries) == ~(attempt < max_retries - 1)

\* a call begins
CallFetch ==
    /\ fetch_run.pc = "idle"
    /\ \E function \in FetchFunctions :
        fetch_run' = [fetch_run EXCEPT !.function = function,
                                       !.pc = IF function = "fetch_team_stats"
                                              THEN "espn" ELSE "attempt"]
    /\ UNCHANGED <<roster, full_season_schedule, today, team_data, head_to_head, friend_totals,
                   called, scheduleVars, cacheVars, otherVars, historyVars>>

\* fetch_team_stats: result = fetch_team_stats_espn(); if result: return result
FetchTeamStatsEspn ==
    /\ fetch_run.pc = "espn"
    /\ \E answer \in EspnAnswers :
        fetch_run' = IF EspnAccepted(answer)
                     THEN [fetch_run EXCEPT !.espn = answer, !.returned = "team_stats",
                                            !.pc = "done"]
                     ELSE [fetch_run EXCEPT !.espn = answer, !.pc = "attempt"]
    /\ UNCHANGED <<roster, full_season_schedule, today, team_data, head_to_head, friend_totals,
                   called, scheduleVars, cacheVars, otherVars, historyVars>>

\* one pass through the body of `for attempt in range(max_retries)`: the value
\* is returned, or the exception is caught and the loop sleeps or returns the
\* failure value; a loop that runs out returns None like any function
Attempt ==
    /\ fetch_run.pc = "attempt"
    /\ \E answer \in AttemptAnswers :
        LET loop == RetryLoopOf(fetch_run.function)
            attempt == fetch_run.attempts
            tried == [fetch_run EXCEPT !.attempts = attempt + 1,
                                       !.answers = Append(@, answer)]
        IN fetch_run' =
             IF answer = "rows"
             THEN [tried EXCEPT !.returned = "data", !.pc = "done"]
             ELSE IF answer = "no rows"
             THEN [tried EXCEPT !.returned = EmptyValue(loop), !.pc = "done"]
             ELSE IF IsLastAttempt(attempt, MaxRetries(loop))
             THEN [tried EXCEPT !.returned = FailureValue(loop), !.pc = "done"]
             ELSE IF attempt + 1 < MaxRetries(loop)
             THEN [tried EXCEPT !.pc = "sleeping"]
             ELSE [tried EXCEPT !.returned = "None", !.pc = "done"]
    /\ UNCHANGED <<roster, full_season_schedule, today, team_data, head_to_head, friend_totals,
                   called, scheduleVars, cacheVars, otherVars, historyVars>>

\* time.sleep(retry_delay) is over
RetryDelayOver ==
    /\ fetch_run.pc = "sleeping"
    /\ fetch_run' = [fetch_run EXCEPT !.pc = "attempt"]
    /\ UNCHANGED <<roster, full_season_schedule, today, team_data, head_to_head, friend_totals,
                   called, scheduleVars, cacheVars, otherVars, historyVars>>

InitFetch ==
    /\ roster = TEAM_ASSIGNMENTS
    /\ full_season_schedule = NoSchedule
    /\ today = 1
    /\ NotCalled

NextFetch ==
    \/ CallFetch
    \/ FetchTeamStatsEspn
    \/ Attempt
    \/ RetryDelayOver

SpecFetch == InitFetch /\ [][NextFetch]_vars

\* every request has a timeout and every sleep ends: a call that can take a
\* step takes it
SpecFetchFair == SpecFetch /\ WF_vars(NextFetch)

-----------------------------------------------------------------------------
(* Vocabulary of the properties *)

RealFriends(r) == Friends(r) \ {"Undrafted"}

SetMax(S) == CHOOSE x \in S : \A y \in S : y <= x

\* the sum of one field of a dict of records over a set of its keys
RECURSIVE SumOver(_, _, _)
SumOver(S, d, field) ==
    IF S = {} THEN 0
    ELSE LET k == CHOOSE x \in S : TRUE
         IN d[k][field] + SumOver(S \ {k}, d, field)

\* the fixtures of the schedule dated on or after the as-of date
RemainingFixtures(schedule, as_of) ==
    IF schedule.is_none THEN {}
    ELSE {i \in DOMAIN schedule.games : schedule.games[i].date >= as_of}

\* the remaining fixtures whose two teams are both on the roster of friend P
IntraRosterFixtures(r, schedule, as_of, P) ==
    {i \in RemainingFixtures(schedule, as_of) :
        /\ schedule.games[i].home \in Range(TeamsOf(r, P))
        /\ schedule.games[i].away \in Range(TeamsOf(r, P))}

\* the best guarantee among the participants other than P and Undrafted
BestOtherGuarantee(totals, r, P) ==
    SetMax({totals[Q].total_wins + totals[Q].h2h_remaining : Q \in RealFriends(r) \ {P}})

-----------------------------------------------------------------------------
(* Properties of calculate_friend_totals, checked under SpecTotals *)

\* C1: a participant other than Undrafted is marked eliminated if and only if
\* total_wins + games_remaining - h2h_remaining is less than the largest
\* total_wins + h2h_remaining among the other participants, Undrafted left out.
C1_EliminatedIffBelowBestOther ==
    Returned =>
        \A P \in RealFriends(roster) :
            friend_totals[P].is_eliminated <=>
                (friend_totals[P].total_wins + friend_totals[P].games_remaining
                     - friend_totals[P].h2h_remaining
                 < BestOtherGuarantee(friend_totals, roster, P))

\* a snapshot with one participant eliminated because of its head-to-head games,
\* and another not eliminated whose maximum is above the best other guarantee
C1_Witness ==
    /\ Returned
    /\ \E P, Q \in RealFriends(roster) :
        /\ friend_totals[P].is_eliminated
        /\ friend_totals[P].h2h_remaining > 0
        /\ friend_totals[P].total_wins + friend_totals[P].games_remaining
               >= BestOtherGuarantee(friend_totals, roster, P)
        /\ ~friend_totals[Q].is_eliminated
        /\ friend_totals[Q].total_wins + friend_totals[Q].games_remaining
               - friend_totals[Q].h2h_remaining
           > BestOtherGuarantee(friend_totals, roster, Q)

\* C2: Undrafted is eliminated in every snapshot, whatever the input.
C2_UndraftedAlwaysEliminated ==
    (Returned /\ "Undrafted" \in Friends(roster)) =>
        friend_totals["Undrafted"].is_eliminated

\* a snapshot in which Undrafted has more wins than every real participant
C2_Witness ==
    /\ Returned
    /\ "Undrafted" \in Friends(roster)
    /\ \A P \in RealFriends(roster) :
           friend_totals["Undrafted"].total_wins > friend_totals[P].total_wins

C4_Scenario ==
    /\ Returned
    /\ roster = ScenarioRoster
    /\ DOMAIN team_data = {"T1", "T2", "T3", "T4"}
    /\ team_data["T1"].wins + team_data["T2"].wins = 10
    /\ team_data["T1"].games_played = GAMES_PER_TEAM - 1
    /\ team_data["T2"].games_played = GAMES_PER_TEAM - 1
    /\ team_data["T3"].wins + team_data["T4"].wins = 11
    /\ team_data["T3"].games_played = GAMES_PER_TEAM
    /\ team_data["T4"].games_played = GAMES_PER_TEAM
    /\ Cardinality(RemainingFixtures(full_season_schedule, today)) = 1
    /\ Cardinality(IntraRosterFixtures(roster, full_season_schedule, today, "A")) = 1

\* C4 as stated: in the scenario the snapshot marks A eliminated.
C4_ScenarioEliminatesA ==
    C4_Scenario => friend_totals["A"].is_eliminated

\* C4 amended: in the scenario A has two team-games remaining and one
\* head-to-head game, so its maximum 10 + 2 - 1 = 11 ties B's 11 and the
\* snapshot marks A not eliminated.
C4_ScenarioTiesA ==
    C4_Scenario =>
        /\ friend_totals["A"].total_wins = 10
        /\ friend_totals["A"].games_remaining = 2
        /\ friend_totals["A"].h2h_remaining = 1
        /\ friend_totals["B"].total_wins = 11
        /\ friend_totals["B"].games_remaining = 0
        /\ ~friend_totals["A"].is_eliminated

\* the scenario has been computed
C4_Witness == C4_Scenario /\ ~friend_totals["B"].is_eliminated

\* C5: two participants whose guaranteed wins (total_wins + h2h_remaining) are
\* equal and are the largest among the real participants are both left not
\* eliminated.
C5_TiedLeadersNotEliminated ==
    Returned =>
        \A P, Q \in RealFriends(roster) :
            ( /\ P # Q
              /\ friend_totals[P].total_wins + friend_totals[P].h2h_remaining
                   = friend_totals[Q].total_wins + friend_totals[Q].h2h_remaining
              /\ \A X \in RealFriends(roster) :
                     friend_totals[X].total_wins + friend_totals[X].h2h_remaining
                       <= friend_totals[P].total_wins + friend_totals[P].h2h_remaining )
            => (~friend_totals[P].is_eliminated /\ ~friend_totals[Q].is_eliminated)

\* C5 restricted to snapshots in which no participant has negative games
\* remaining: the tie property fails there too, through a fixture dated today
\* whose game the team stats already count.
C5_TiedLeadersWithinQuota ==
    (Returned /\ \A P \in Friends(roster) : friend_totals[P].games_remaining >= 0)
        => C5_TiedLeadersNotEliminated

\* C6: the maximum possible wins the elimination decision uses are
\* total_wins + games_remaining - (number of remaining intra-roster fixtures),
\* which is total_wins + games_remaining when the participant has no such fixture.
C6_MaxPossibleWinsValue ==
    Returned =>
        \A P \in RealFriends(roster) :
            LET h == Cardinality(IntraRosterFixtures(roster, full_season_schedule, today, P))
                used == MaxPossibleWins(friend_totals[P].total_wins,
                                        friend_totals[P].games_remaining,
                                        friend_totals[P].h2h_remaining)
            IN /\ used = friend_totals[P].total_wins + friend_totals[P].games_remaining - h
               /\ (h = 0 => used = friend_totals[P].total_wins + friend_totals[P].games_remaining)
               /\ (friend_totals[P].is_eliminated
                     <=> used < BestOtherGuarantee(friend_totals, roster, P))

\* a snapshot with a participant that has intra-roster fixtures left and one that has none
C6_Witness ==
    /\ Returned
    /\ \E P, Q \in RealFriends(roster) :
        /\ IntraRosterFixtures(roster, full_season_schedule, today, P) # {}
        /\ IntraRosterFixtures(roster, full_season_schedule, today, Q) = {}
        /\ friend_totals[Q].games_remaining > 0

\* C7: games_remaining is never negative in a snapshot.
C7_GamesRemainingNonNegative ==
    Returned => \A P \in Friends(roster) : friend_totals[P].games_remaining >= 0

\* the teams of P that the team stats hold
FoundTeams(r, data, P) == Range(TeamsOf(r, P)) \cap DOMAIN data

\* C8: games_remaining is 82 times the roster size minus the games played of
\* the roster teams found in the team stats; a team that is not found adds
\* nothing to the games played, wins and losses and still counts 82 games.
C8_GamesRemainingFormula ==
    Returned =>
        \A P \in Friends(roster) :
            /\ friend_totals[P].games_remaining
                 = GAMES_PER_TEAM * Len(TeamsOf(roster, P))
                     - SumOver(FoundTeams(roster, team_data, P), team_data, "games_played")
            /\ friend_totals[P].total_wins
                 = SumOver(FoundTeams(roster, team_data, P), team_data, "wins")
            /\ friend_totals[P].total_losses
                 = SumOver(FoundTeams(roster, team_data, P), team_data, "losses")

\* a snapshot for a participant with one team found and another not found
C8_Witness ==
    /\ Returned
    /\ \E P \in Friends(roster) :
        /\ FoundTeams(roster, team_data, P) # {}
        /\ Range(TeamsOf(roster, P)) \ (DOMAIN team_data) # {}
        /\ friend_totals[P].games_remaining > GAMES_PER_TEAM

-----------------------------------------------------------------------------
(* Properties of get_remaining_head_to_head, checked under SpecH2H *)

H2HReturned == "get_remaining_head_to_head" \in called

\* C9: the count returned for a participant is the number of fixtures of the
\* schedule dated on or after today whose two teams are both on that
\* participant's roster; nothing is counted for Undrafted, and a fixture
\* between the teams of two different participants is counted for nobody.
C9_HeadToHeadCounts ==
    H2HReturned =>
        /\ DOMAIN head_to_head \subseteq RealFriends(roster)
        /\ \A P \in RealFriends(roster) :
               Get(head_to_head, P, 0)
                 = Cardinality(IntraRosterFixtures(roster, full_season_schedule, today, P))

\* a call that counted a fixture dated today and left out a remaining fixture
\* between two participants or between the Undrafted teams
C9_Witness ==
    /\ H2HReturned
    /\ ~full_season_schedule.is_none
    /\ \E i, j \in DOMAIN full_season_schedule.games :
        /\ full_season_schedule.games[i].date = today
        /\ \E P \in RealFriends(roster) :
            /\ i \in IntraRosterFixtures(roster, full_season_schedule, today, P)
            /\ head_to_head[P] = 1
        /\ j \in RemainingFixtures(full_season_schedule, today)
        /\ \A P \in RealFriends(roster) :
               j \notin IntraRosterFixtures(roster, full_season_schedule, today, P)

-----------------------------------------------------------------------------

\* C10: with no fixture data (schedule never loaded, or empty) the snapshot is
\* still returned, h2h_remaining is 0 for everyone and elimination compares
\* total_wins + games_remaining with the best total_wins of the others.
C10_NoScheduleNoAdjustment ==
    (Returned /\ ScheduleIsFalsy(full_season_schedule)) =>
        /\ DOMAIN friend_totals = Friends(roster)
        /\ \A P \in Friends(roster) : friend_totals[P].h2h_remaining = 0
        /\ \A P \in RealFriends(roster) :
               friend_totals[P].is_eliminated <=>
                   (friend_totals[P].total_wins + friend_totals[P].games_remaining
                    < SetMax({friend_totals[Q].total_wins : Q \in RealFriends(roster) \ {P}}))

\* a snapshot computed while the schedule was never loaded, with one
\* participant eliminated and one not
C10_Witness ==
    /\ Returned
    /\ full_season_schedule.is_none
    /\ \E P, Q \in RealFriends(roster) :
           friend_totals[P].is_eliminated /\ ~friend_totals[Q].is_eliminated

-----------------------------------------------------------------------------

\* C11: once _full_season_schedule holds a non-empty fixture list, every later
\* load_season_schedule call, whatever its cached_schedule argument, returns
\* that list, does not fetch, and leaves the global as it is.
C11_NonEmptyScheduleKept ==
    [][ ~ScheduleIsFalsy(full_season_schedule) =>
            /\ full_season_schedule' = full_season_schedule
            /\ schedule_call'.returned = full_season_schedule
            /\ fetch_count' = fetch_count ]_vars

\* a call that was handed a different non-empty list and still returned the
\* list the global already held
C11_Witness ==
    /\ "load_season_schedule" \in called
    /\ ~ScheduleIsFalsy(full_season_schedule)
    /\ ~ScheduleIsFalsy(schedule_call.cached_schedule)
    /\ schedule_call.cached_schedule # full_season_schedule
    /\ schedule_call.returned = full_season_schedule

-----------------------------------------------------------------------------

\* C12: a fixture list stored in the cache file is still stored, unchanged,
\* in every document that later refresh cycles leave in the file.
C12_StoredScheduleKept ==
    cache_file.text = "complete" => cache_file.data.full_season_schedule = StoredSchedule

-----------------------------------------------------------------------------

\* C13: when a refresh cycle has ended in failure (fetch_team_stats returned
\* nothing, or a later step raised) and nobody is writing, the cache file is
\* as a completed cycle left it: absent or a complete document, never a
\* truncated or partly written one.
C13_FailedCycleLeavesSnapshot ==
    ((\E p \in Procs : cycle[p].outcome = "failed") /\ cache_file.open_by = {}) =>
        cache_file.text \in {"none", "complete"}

-----------------------------------------------------------------------------

\* C14: every load_cached_data that has returned while refreshes were running
\* returned a complete document; none ended on an empty or partly written file.
C14_ReadGetsCompleteSnapshot ==
    read_result.status \in {"none", "snapshot"}

-----------------------------------------------------------------------------

\* the participant whose roster lists the team under its roster name
OwnersOf(r, team) == {f \in Friends(r) : team \in Range(TeamsOf(r, f))}

\* C15: normalize_team_name sends "Los Angeles Clippers" and "LA Clippers" to
\* "LA Clippers" and leaves every other name as it is; applying it twice is
\* applying it once; and the name of each of the 30 teams, in either spelling,
\* is resolved to the one participant whose roster lists that team.
C15_AliasResolvesToOwner ==
    /\ normalize_team_name("Los Angeles Clippers") = "LA Clippers"
    /\ normalize_team_name("LA Clippers") = "LA Clippers"
    /\ \A n \in FeedNames \ {"Los Angeles Clippers"} : normalize_team_name(n) = n
    /\ \A n \in FeedNames : normalize_team_name(normalize_team_name(n)) = normalize_team_name(n)
    /\ \A t \in DOMAIN ESPN_TEAM_IDS : Cardinality(OwnersOf(roster, t)) = 1
    /\ "fetch_todays_games" \in called =>
           /\ game_entry.home \in DOMAIN ESPN_TEAM_IDS =>
                  OwnersOf(roster, game_entry.home) = {game_entry.home_friend}
           /\ game_entry.visitor \in DOMAIN ESPN_TEAM_IDS =>
                  OwnersOf(roster, game_entry.visitor) = {game_entry.visitor_friend}
           /\ game_entry.home = "Los Angeles Clippers" =>
                  OwnersOf(roster, "LA Clippers") = {game_entry.home_friend}
           /\ game_entry.visitor = "Los Angeles Clippers" =>
                  OwnersOf(roster, "LA Clippers") = {game_entry.visitor_friend}

\* a game of the Clippers under the feed's spelling against the Lakers
C15_Witness ==
    /\ "fetch_todays_games" \in called
    /\ game_entry.home = "Los Angeles Clippers"
    /\ game_entry.home_friend = "Duke"
    /\ game_entry.visitor = "Los Angeles Lakers"
    /\ game_entry.visitor_friend = "Andy"

-----------------------------------------------------------------------------

\* the record of a team that has played no game
ZeroRecord == [wins |-> 0, losses |-> 0, games_played |-> 0, total_plus_minus |-> 0]

\* team_data with an all-zero record for every roster team it lacks
ZeroFilled(r, data) == data @@ [t \in RosterTeams(r) \ DOMAIN data |-> ZeroRecord]

\* C16: with roster teams missing from the team stats the snapshot still has an
\* entry for every participant, and it is the snapshot the same stats give
\* when each missing team is present with an all-zero record: the missing team
\* adds nothing and nothing else changes.
C16_MissingTeamCountsAsZero ==
    Returned =>
        /\ DOMAIN friend_totals = Friends(roster)
        /\ friend_totals =
               calculate_friend_totals(roster, ZeroFilled(roster, team_data),
                                       full_season_schedule, today)

\* a snapshot computed while a team of a participant was missing and another
\* team of the same participant had wins
C16_Witness ==
    /\ Returned
    /\ \E P \in RealFriends(roster) :
           /\ \E t \in Range(TeamsOf(roster, P)) : t \notin DOMAIN team_data
           /\ friend_totals[P].total_wins > 0

-----------------------------------------------------------------------------

\* the participants' names in alphabetical order
Alphabetical == <<"A", "Adam", "Andy", "B", "Chris", "Duke", "JJ", "Nate", "Nick", "Undrafted">>

NameRank(f) == CHOOSE i \in 1..Len(Alphabetical) : Alphabetical[i] = f

\* f is listed before g: more wins; or as many wins and a larger point
\* differential per game; or both equal and f first in the alphabet
ListedBefore(f, g) ==
    LET pd_f == friend_totals[f].point_diff_per_game
        pd_g == friend_totals[g].point_diff_per_game
    IN \/ friend_totals[f].total_wins > friend_totals[g].total_wins
       \/ /\ friend_totals[f].total_wins = friend_totals[g].total_wins
          /\ pd_f.num * pd_g.den > pd_g.num * pd_f.den
       \/ /\ friend_totals[f].total_wins = friend_totals[g].total_wins
          /\ pd_f.num * pd_g.den = pd_g.num * pd_f.den
          /\ NameRank(f) < NameRank(g)

\* C17: the listing holds every participant once, by total wins descending,
\* ties by point differential descending and then by name; it is therefore
\* the same for every order of the roster table.
C17_ListingOrder ==
    "display_standings" \in called =>
        /\ Range(sorted_friends) = Friends(roster)
        /\ Len(sorted_friends) = Len(roster)
        /\ \A i \in 1..(Len(sorted_friends) - 1) :
               ListedBefore(sorted_friends[i], sorted_friends[i + 1])

-----------------------------------------------------------------------------

\* the number of roster slots of the table
RECURSIVE SlotCount(_)
SlotCount(r) == IF r = <<>> THEN 0 ELSE Len(Head(r).teams) + SlotCount(Tail(r))

\* C19: in TEAM_ASSIGNMENTS no team is listed twice, on one roster or on two,
\* Undrafted included, and the teams listed are exactly the 30 keys of
\* ESPN_TEAM_IDS; so the reverse lookup built from the table gets one key per
\* roster slot (no assignment overwrites an earlier one) and sends each team
\* to the participant that lists it.
C19_EveryTeamOnOneRoster ==
    roster = TEAM_ASSIGNMENTS =>
        /\ \A i, j \in DOMAIN roster :
               i # j => Range(roster[i].teams) \cap Range(roster[j].teams) = {}
        /\ \A i \in DOMAIN roster : Cardinality(Range(roster[i].teams)) = Len(roster[i].teams)
        /\ RosterTeams(roster) = DOMAIN ESPN_TEAM_IDS
        /\ Cardinality(DOMAIN ESPN_TEAM_IDS) = 30
        /\ Cardinality(DOMAIN TeamToFriend(roster)) = SlotCount(roster)
        /\ \A i \in DOMAIN roster : \A t \in Range(roster[i].teams) :
               TeamToFriend(roster)[t] = roster[i].friend

\* the reverse lookup of the table was built and used: a head-to-head count
\* was returned for the table's first participant
C19_Witness ==
    /\ roster = TEAM_ASSIGNMENTS
    /\ H2HReturned
    /\ "JJ" \in DOMAIN head_to_head

-----------------------------------------------------------------------------

\* the flag of f has been set
FlagSet(totals, f) == f \in DOMAIN totals /\ "is_eliminated" \in DOMAIN totals[f]

\* C20: within one calculate_friend_totals, a flag that is true stays true at
\* every later step until the snapshot is returned; and the snapshot returned
\* is the same whatever the order in which the participants were visited,
\* hence whatever the flags of the others were when a participant was judged.
C20_EliminationMonotonic ==
    [][ /\ \A f \in Friends(roster) :
               (FlagSet(friend_totals, f) /\ friend_totals[f].is_eliminated) =>
                   (FlagSet(friend_totals', f) /\ friend_totals'[f].is_eliminated)
        /\ pass_state'.phase = "returned" =>
               friend_totals' = calculate_friend_totals(roster, team_data,
                                                        full_season_schedule, today) ]_vars

\* the elimination loop is running, a participant judged earlier is marked
\* eliminated and another participant is still to be judged
C20_Witness ==
    /\ pass_state.phase = "elimination"
    /\ \E f \in RealFriends(roster) \ pass_state.todo :
           FlagSet(friend_totals, f) /\ friend_totals[f].is_eliminated
    /\ pass_state.todo \cap RealFriends(roster) # {}

-----------------------------------------------------------------------------
(* Property of the recalculate request, checked under SpecRecalc *)

\* C18: two recalculations with the same roster and the same team stats return
\* identical snapshots whatever ran in between (schedule loads, a change of
\* the current date), and a recalculation with an alternate roster leaves the
\* default roster TEAM_ASSIGNMENTS unchanged.
C18_RecalculateIsPure ==
    /\ roster = TEAM_ASSIGNMENTS
    /\ (/\ Len(recalc) = 2
        /\ recalc[1].team_assignments = recalc[2].team_assignments
        /\ recalc[1].team_stats = recalc[2].team_stats)
       => recalc[1].friend_totals = recalc[2].friend_totals

-----------------------------------------------------------------------------
(* Further properties of calculate_friend_totals, checked under SpecTotals *)

\* C23: in every snapshot returned by calculate_friend_totals, total_games of
\* a participant equals its total_wins plus its total_losses.
C23_TotalGamesIsWinsPlusLosses ==
    Returned =>
        \A P \in Friends(roster) :
            friend_totals[P].total_games
                = friend_totals[P].total_wins + friend_totals[P].total_losses

\* a snapshot with a participant that has played games and has games left
C23_Witness ==
    /\ Returned
    /\ \E P \in Friends(roster) :
        /\ friend_totals[P].total_wins > 0
        /\ friend_totals[P].total_losses > 0
        /\ friend_totals[P].games_remaining > 0

\* C26: the max_possible_win_pct stored for a participant equals the maximum
\* possible wins the elimination decision uses
\* (total_wins + games_remaining - h2h_remaining) divided by 82 x roster size.
C26_MaxPctMatchesElimination ==
    Returned =>
        \A P \in Friends(roster) :
            LET used == MaxPossibleWins(friend_totals[P].total_wins,
                                        friend_totals[P].games_remaining,
                                        friend_totals[P].h2h_remaining)
                quota == GAMES_PER_TEAM * Len(friend_totals[P].teams)
            IN friend_totals[P].max_possible_win_pct.num * quota
                   = used * friend_totals[P].max_possible_win_pct.den

\* games_played of a team, 0 when the team stats lack it
PlayedOf(data, t) == IF t \in DOMAIN data THEN data[t].games_played ELSE 0

\* well-formed input: every record has games_played = wins + losses <= 82, and
\* a team has at least as many unplayed games as remaining intra-roster fixtures
WellFormedInput ==
    /\ \A t \in DOMAIN team_data :
           /\ team_data[t].games_played = team_data[t].wins + team_data[t].losses
           /\ team_data[t].games_played <= GAMES_PER_TEAM
    /\ \A P \in Friends(roster) : \A t \in Range(TeamsOf(roster, P)) :
           Cardinality({i \in IntraRosterFixtures(roster, full_season_schedule, today, P) :
                           t \in {full_season_schedule.games[i].home,
                                  full_season_schedule.games[i].away}})
               <= GAMES_PER_TEAM - PlayedOf(team_data, t)

\* P has the most guaranteed wins among the participants other than Undrafted
HasMostGuaranteedWins(totals, r, P) ==
    \A Q \in RealFriends(r) :
        totals[Q].total_wins + totals[Q].h2h_remaining
            <= totals[P].total_wins + totals[P].h2h_remaining

\* C25: for well-formed input a participant whose guaranteed wins
\* (total_wins + h2h_remaining) are maximal among the participants other than
\* Undrafted is never marked eliminated, so every snapshot has at least one
\* such participant that is not eliminated.
C25_LeaderNeverEliminated ==
    (Returned /\ WellFormedInput) =>
        /\ \A P \in RealFriends(roster) :
               HasMostGuaranteedWins(friend_totals, roster, P)
                   => ~friend_totals[P].is_eliminated
        /\ \E P \in RealFriends(roster) : ~friend_totals[P].is_eliminated

\* well-formed input where two participants share the most guaranteed wins,
\* each with a remaining intra-roster fixture and no other game left
C25_Witness ==
    /\ Returned
    /\ WellFormedInput
    /\ \E P, Q \in RealFriends(roster) :
        /\ P # Q
        /\ HasMostGuaranteedWins(friend_totals, roster, P)
        /\ HasMostGuaranteedWins(friend_totals, roster, Q)
        /\ friend_totals[P].h2h_remaining > 0
        /\ friend_totals[Q].h2h_remaining > 0
        /\ friend_totals[P].games_remaining = 2 * friend_totals[P].h2h_remaining

-----------------------------------------------------------------------------
(* Properties of the historical standings, checked under SpecHistory *)

\* the history of a team, empty for a team without records
HistoryOf(records, t) == IF t \in DOMAIN records THEN records[t].history ELSE <<>>

\* the team's cumulative record as of date d: its history record with the
\* latest date on or before d (with the most games, among records of that
\* date), all zero when it has no such record
RecordAsOf(records, t, d) ==
    LET h == HistoryOf(records, t)
        known == {i \in DOMAIN h : h[i].date <= d}
    IN IF known = {} THEN [wins |-> 0, losses |-> 0]
       ELSE LET i == CHOOSE j \in known : \A k \in known :
                         \/ h[k].date < h[j].date
                         \/ /\ h[k].date = h[j].date
                            /\ h[k].wins + h[k].losses <= h[j].wins + h[j].losses
            IN [wins |-> h[i].wins, losses |-> h[i].losses]

RECURSIVE SumAsOf(_, _, _, _)
SumAsOf(teams, records, d, field) ==
    IF teams = <<>> THEN 0
    ELSE RecordAsOf(records, Head(teams), d)[field] + SumAsOf(Tail(teams), records, d, field)

\* C21: for each participant and each date of the axis the reported win
\* percentage is computed from the sums, over the participant's teams, of each
\* team's cumulative wins and losses in its most recent history record dated
\* on or before that date (zero for a team with no such record), never from a
\* record dated after that date.
C21_LastKnownValueCarriedForward ==
    (HistoryReturned /\ ~friend_history.is_none) =>
        \A P \in Friends(roster) :
            /\ DOMAIN friend_history.history[P] = DOMAIN dates
            /\ \A i \in DOMAIN dates :
                LET entry == friend_history.history[P][i]
                    wins == SumAsOf(TeamsOf(roster, P), team_records, dates[i], "wins")
                    losses == SumAsOf(TeamsOf(roster, P), team_records, dates[i], "losses")
                IN /\ entry.date = dates[i]
                   /\ entry.win_pct.num * (wins + losses) = 100 * wins * entry.win_pct.den

\* a timeline with a date on which one team of a participant has an earlier
\* record and a later one, and another of its teams has only a later record
C21_Witness ==
    /\ HistoryReturned
    /\ ~friend_history.is_none
    /\ \E P \in Friends(roster), i \in DOMAIN dates :
        \E t, u \in Range(TeamsOf(roster, P)) :
            /\ \E k \in DOMAIN HistoryOf(team_records, t) :
                   HistoryOf(team_records, t)[k].date < dates[i]
            /\ \E k \in DOMAIN HistoryOf(team_records, t) :
                   HistoryOf(team_records, t)[k].date > dates[i]
            /\ HistoryOf(team_records, u) # <<>>
            /\ \A k \in DOMAIN HistoryOf(team_records, u) :
                   HistoryOf(team_records, u)[k].date > dates[i]
            /\ friend_history.history[P][i].win_pct.num > 0

StrictlyIncreasing(axis) == \A i \in 1..(Len(axis) - 1) : axis[i] < axis[i + 1]

\* the completed games the last run of update_historical_from_espn was given for day d
CompletedOn(d) == SelectSeq(history_run.scoreboards[d], IsFinal)

\* what the record of team t gained on day d
GainedOn(records, t, d, field) ==
    RecordAsOf(records, t, d)[field] - RecordAsOf(records, t, d - 1)[field]

\* C27: update_historical_from_espn never counts a game day twice. After any
\* number of successive runs the dates list is strictly increasing; the dates
\* the last run appended are later than the previous last date and earlier
\* than the day of the run; each completed game of an appended date has added
\* one win to one of its two teams and one loss to the other; and a run with
\* no new completed games leaves team_records and dates unchanged.
C27_NoGameDayCountedTwice ==
    ("update_historical_from_espn" \in called) =>
        LET before == history_run.dates
            appended == {dates[i] : i \in (Len(before) + 1)..Len(dates)}
        IN /\ StrictlyIncreasing(dates)
           /\ Len(before) <= Len(dates)
           /\ SubSeq(dates, 1, Len(before)) = before
           /\ \A d \in appended : before[Len(before)] < d /\ d < history_run.ran_on
           /\ appended = {d \in DOMAIN history_run.scoreboards : CompletedOn(d) # <<>>}
           /\ \A d \in appended : \A k \in DOMAIN CompletedOn(d) :
                  LET g == CompletedOn(d)[k]
                  IN /\ GainedOn(team_records, g.home, d, "wins")
                            + GainedOn(team_records, g.home, d, "losses") = 1
                     /\ GainedOn(team_records, g.visitor, d, "wins")
                            + GainedOn(team_records, g.visitor, d, "losses") = 1
                     /\ GainedOn(team_records, g.home, d, "wins")
                            + GainedOn(team_records, g.visitor, d, "wins") = 1
                     /\ team_records[g.home].wins + team_records[g.home].losses
                            = Len(team_records[g.home].history)
           /\ \A t \in DOMAIN team_records :
                  Len(team_records[t].history) - Len(HistoryOf(history_run.team_records, t))
                      = Cardinality({<<d, k>> \in appended \X {1, 2} :
                                        /\ k \in DOMAIN CompletedOn(d)
                                        /\ t \in {CompletedOn(d)[k].home, CompletedOn(d)[k].visitor}})
           /\ (appended = {}) =>
                  (team_records = history_run.team_records /\ dates = before)

\* a second run on the same day, after a run that appended a date with two
\* completed games: it asks for no day and changes nothing
C27_Witness ==
    /\ "update_historical_from_espn" \in called
    /\ Len(dates) >= 2
    /\ history_run.dates = dates
    /\ history_run.ran_on = today
    /\ dates[Len(dates)] = today - 1
    /\ DOMAIN history_run.scoreboards = {}
    /\ \E t \in DOMAIN team_records : \E k \in DOMAIN team_records[t].history :
           /\ team_records[t].history[k].date = today - 1
           /\ today = MaxDay

-----------------------------------------------------------------------------
(* Properties of the fetches, checked under SpecFetchFair and SpecFetch *)

\* the retry loop of the running call has kept within its attempts
WithinAttempts ==
    LET loop == RetryLoopOf(fetch_run.function)
        made == fetch_run.attempts
    IN /\ made <= MaxRetries(loop)
       /\ made <= 3
       /\ Len(fetch_run.answers) = made
       /\ \A i \in 1..(made - 1) : fetch_run.answers[i] \in Exceptions
       /\ (fetch_run.pc \in {"attempt", "sleeping"}) => made < MaxRetries(loop)
       /\ (fetch_run.pc = "done" /\ made > 0) =>
              IF fetch_run.answers[made] \in Exceptions
              THEN made = MaxRetries(loop) /\ fetch_run.returned = FailureValue(loop)
              ELSE fetch_run.returned \in {"data", EmptyValue(loop)}

\* C24: every retrying fetch terminates: it makes at most its fixed number of
\* attempts (never more than 3), makes no attempt after one has succeeded, and
\* after the last failed attempt returns its failure value (None, (None, None)
\* or an empty list) instead of raising or looping.
C24_RetryingFetchTerminates ==
    /\ []WithinAttempts
    /\ <>(fetch_run.pc = "done")

\* fetch_historical_standings has failed three times and returned (None, None)
C24_Witness ==
    /\ fetch_run.function = "fetch_historical_standings"
    /\ fetch_run.pc = "done"
    /\ fetch_run.attempts = 3
    /\ fetch_run.answers[3] \in Exceptions
    /\ fetch_run.returned = "(None, None)"

\* the NBA backup has been attempted
BackupAttempted == fetch_run.attempts > 0

\* fetch_team_stats has returned a value its callers treat as no data
ReturnedNoData == fetch_run.pc = "done" /\ fetch_run.returned \in {"None", "{}"}

-----------------------------------------------------------------------------
(* Property of the percentages, checked under SpecHistory *)

\* the fractions of a snapshot entry
SnapshotFractions(entry) ==
    {entry.win_pct, entry.point_diff_per_game, entry.max_possible_win_pct}

\* the participant has played no game according to the snapshot
NoGamesPlayed(entry) ==
    /\ entry.total_games = 0
    /\ entry.games_remaining = GAMES_PER_TEAM * Len(entry.teams)

\* no quotient of the snapshot or of the timeline has a zero divisor
NoZeroDivisor ==
    /\ \A P \in DOMAIN friend_totals :
           \A q \in SnapshotFractions(friend_totals[P]) : q.den # 0
    /\ \A P \in DOMAIN friend_history.history : \A i \in DOMAIN friend_history.history[P] :
           friend_history.history[P][i].win_pct.den # 0
    /\ \A t \in DOMAIN team_records : \A k \in DOMAIN team_records[t].history :
           team_records[t].history[k].win_pct.den # 0

\* a date of the timeline on which the teams of P have no game played gives
\* win percentage 0
ZeroGamesDateGivesZero ==
    \A P \in DOMAIN friend_history.history : \A i \in DOMAIN friend_history.history[P] :
        (SumAsOf(TeamsOf(roster, P), team_records, dates[i], "wins")
             + SumAsOf(TeamsOf(roster, P), team_records, dates[i], "losses") = 0)
            => friend_history.history[P][i].win_pct = Zero

\* C22 as stated: no computation divides by zero; a timeline date with zero
\* games played for a participant's whole roster yields win percentage 0, and a
\* participant with no games played (or an empty roster) gets win_pct 0,
\* point_diff_per_game 0 and max_possible_win_pct 0.
C22_NoGamesAllZero ==
    /\ NoZeroDivisor
    /\ ZeroGamesDateGivesZero
    /\ \A P \in DOMAIN friend_totals :
           NoGamesPlayed(friend_totals[P]) =>
               /\ friend_totals[P].win_pct = Zero
               /\ friend_totals[P].point_diff_per_game = Zero
               /\ friend_totals[P].max_possible_win_pct.num = 0

\* C22, amended: as above, except that max_possible_win_pct is 0 only for an
\* empty roster; a participant with teams and no games played has
\* max_possible_win_pct 1 (all 82 games of each team can still be won).
C22_NoGamesNoFault ==
    /\ NoZeroDivisor
    /\ ZeroGamesDateGivesZero
    /\ \A P \in DOMAIN friend_totals :
           NoGamesPlayed(friend_totals[P]) =>
               /\ friend_totals[P].win_pct = Zero
               /\ friend_totals[P].point_diff_per_game = Zero
               /\ IF friend_totals[P].teams = <<>>
                  THEN friend_totals[P].max_possible_win_pct = Zero
                  ELSE friend_totals[P].max_possible_win_pct.num
                           = friend_totals[P].max_possible_win_pct.den

\* a snapshot with a participant without teams and one whose teams have not
\* played, and a timeline with an all-zero date for one participant and a
\* date with games for another
C22_Witness ==
    /\ HistoryReturned
    /\ ~friend_history.is_none
    /\ \E P, Q \in DOMAIN friend_totals :
        /\ friend_totals[P].teams = <<>>
        /\ friend_totals[Q].teams # <<>>
        /\ NoGamesPlayed(friend_totals[Q])
    /\ \E P, Q \in DOMAIN friend_history.history : \E i \in DOMAIN dates :
        /\ TeamsOf(roster, P) # <<>>
        /\ friend_history.history[P][i].win_pct = Zero
        /\ SumAsOf(TeamsOf(roster, P), team_records, dates[i], "losses") = 0
        /\ friend_history.history[Q][i].win_pct.num > 0

====
